---- MODULE Spec2Model ----
(***************************************************************************)
(* A model of the long-document pipeline of content-summarizer-agent:      *)
(*   - generators/chunker.py        chunk_text            (SpecChunk)      *)
(*   - generators/note_generator.py generate_with_verification             *)
(*     generators/agents/orchestrator.py Orchestrator.generate_note        *)
(*                                                        (SpecLoop)       *)
(*   - phased_pipeline.py           phase2_chunk_notes, phase3_combine     *)
(*                                                        (SpecPhase)      *)
(* Texts are sequences of one-character strings; line numbers and list     *)
(* indices keep Python's 0-based values.                                   *)
(***************************************************************************)
EXTENDS Integers, Sequences, FiniteSets, TLC

VARIABLES
    \* chunk_text
    text, max_size, overlap_lines, lines, chunks, current_lines,
    current_size, chunk_start, last_break_idx, i, split_log, cpc,
    \* the revision loops: arguments, loop position, calls made
    impl, max_attempts, min_score, attempt, lpc, gen_calls, ver_calls,
    attempt_log, gen_failed, ret,
    \* generate_with_verification
    current_prompt, note, best_note, best_result,
    \* Orchestrator.generate_note
    current_draft, best_draft, best_critique, best_score, total_tokens,
    \* the tokens the collaborator calls of the run used
    api_usage,
    \* the work directory of the phased pipeline
    transcript, chunk_files, notes, final_notes, output_copy,
    \* one run of phase 2 or phase 3: arguments, environment, locals, position
    phase, ppc, env, force, chunk_size, no_merge_ai, p2_chunks, part_num,
    note_content, part_files, parts, final_content,
    \* what the runs did: console output, calls made, chunks reached
    runs, events, notes_at_start, run_calls, failed_parts, warnings,
    exit_msg, prev_done, after_complete,
    \* phase 3 call by call: the notes in the work directory, the arguments
    \* and environment of the run, its locals, the calls it made
    m_notes, m_env, m_no_merge_ai, m_meta, m_today, m_pc, m_part_files,
    m_parts, m_i, m_mid, m_calls, m_trace, m_final, m_runs, m_log,
    \* a note that gets one more citation marker
    c_note, c_st, c_before, c_inserted,
    \* one verification of a note: verify_note or CriticAgent.run
    s_path, s_template, s_st, s_note, s_env, s_pc, s_ai, s_result

chunkVars == <<text, max_size, overlap_lines, lines, chunks, current_lines,
               current_size, chunk_start, last_break_idx, i, split_log, cpc>>

loopVars == <<impl, max_attempts, min_score, attempt, lpc, gen_calls,
              ver_calls, attempt_log, gen_failed, ret, current_prompt, note,
              best_note, best_result, current_draft, best_draft,
              best_critique, best_score, total_tokens, api_usage>>

phaseVars == <<phase, transcript, chunk_files, notes, final_notes, output_copy,
               ppc, env, force, chunk_size, no_merge_ai, p2_chunks, part_num,
               note_content, part_files, parts, final_content, runs, events,
               notes_at_start, run_calls, failed_parts, warnings, exit_msg,
               prev_done, after_complete>>

mergeVars == <<m_notes, m_env, m_no_merge_ai, m_meta, m_today, m_pc,
               m_part_files, m_parts, m_i, m_mid, m_calls, m_trace, m_final,
               m_runs, m_log>>

citeVars == <<c_note, c_st, c_before, c_inserted>>

scoreVars == <<s_path, s_template, s_st, s_note, s_env, s_pc, s_ai, s_result>>

restVars == <<mergeVars, citeVars, scoreVars>>

vars == <<chunkVars, loopVars, phaseVars, restVars>>

otherThanChunk == <<loopVars, phaseVars, restVars>>

otherThanLoop == <<chunkVars, phaseVars, restVars>>

otherThanPhase == <<chunkVars, loopVars, restVars>>

otherThanMerge == <<chunkVars, loopVars, phaseVars, citeVars, scoreVars>>

otherThanCite == <<chunkVars, loopVars, phaseVars, mergeVars, scoreVars>>

otherThanScore == <<chunkVars, loopVars, phaseVars, mergeVars, citeVars>>

----------------------------------------------------------------------------
(* Bounds of the model *)

MaxLines == 4
MaxSize == 5
MaxOverlap == 2
MaxAttempts == 3

\* the most part numbers a work directory holds, and the most runs of a phase
MaxParts == 3

MaxRuns == 3

\* the most partial notes, and the most runs, of phase 3 taken call by call
MaxMergeParts == 10

MaxMergeRuns == 2

\* the most pieces a note is put together from
MaxPieces == 5

----------------------------------------------------------------------------
(* Python's None, an absent candidate, and the empty note "" of a failed run *)

None == [none |-> TRUE]

NoCand == 0

EmptyNote == -1

----------------------------------------------------------------------------
(* Strings *)

NL == "\n"

Digits == {"0", "1", "2", "3", "4", "5", "6", "7", "8", "9"}

IsSpace(c) == c \in {" ", "\t", "\n"}

Min(a, b) == IF a < b THEN a ELSE b

Max(a, b) == IF a > b THEN a ELSE b

RECURSIVE RStrip(_)
RStrip(s) ==
    IF s = <<>> THEN s
    ELSE IF IsSpace(s[Len(s)]) THEN RStrip(SubSeq(s, 1, Len(s) - 1))
    ELSE s

RECURSIVE LStrip(_)
LStrip(s) ==
    IF s = <<>> THEN s
    ELSE IF IsSpace(s[1]) THEN LStrip(Tail(s))
    ELSE s

Strip(s) == LStrip(RStrip(s))

\* str.split('\n'): always at least one (possibly empty) field
RECURSIVE SplitNL(_)
SplitNL(s) ==
    IF \A k \in 1..Len(s) : s[k] # NL THEN <<s>>
    ELSE LET p == CHOOSE k \in 1..Len(s) :
                     s[k] = NL /\ \A j \in 1..(k - 1) : s[j] # NL
         IN  <<SubSeq(s, 1, p - 1)>> \o SplitNL(SubSeq(s, p + 1, Len(s)))

\* '\n'.join(list)
RECURSIVE JoinNL(_)
JoinNL(ls) ==
    IF ls = <<>> THEN <<>>
    ELSE IF Len(ls) = 1 THEN ls[1]
    ELSE ls[1] \o <<NL>> \o JoinNL(Tail(ls))

\* Python slice seq[a:b] for 0 <= a, with b clipped to the length
Slice(s, a, b) == SubSeq(s, a + 1, Min(b, Len(s)))

\* Python slice seq[-n:] for n > 0
LastN(s, n) == SubSeq(s, Max(Len(s) - n, 0) + 1, Len(s))

\* sum(len(l) + 1 for l in ls)
RECURSIVE SizeOf(_)
SizeOf(ls) == IF ls = <<>> THEN 0 ELSE Len(ls[1]) + 1 + SizeOf(Tail(ls))

----------------------------------------------------------------------------
(* _is_paragraph_break *)

At(s, k) == IF k >= 1 /\ k <= Len(s) THEN s[k] ELSE "EOS"

\* re.match(r'^\[?\d{1,2}:\d{2}(:\d{2})?\]?\s', line)
MatchTimestamp(line) ==
    \E ob \in {0, 1}, nd \in {1, 2}, sec \in {0, 1}, cb \in {0, 1} :
        LET p1 == 1 + ob             \* first digit
            p2 == p1 + nd            \* ':'
            p3 == p2 + 3 + 3 * sec   \* after minutes (and seconds)
            p4 == p3 + cb            \* the whitespace
        IN  /\ ob = 1 => At(line, 1) = "["
            /\ \A k \in p1..(p2 - 1) : At(line, k) \in Digits
            /\ At(line, p2) = ":"
            /\ At(line, p2 + 1) \in Digits /\ At(line, p2 + 2) \in Digits
            /\ sec = 1 => /\ At(line, p2 + 3) = ":"
                          /\ At(line, p2 + 4) \in Digits
                          /\ At(line, p2 + 5) \in Digits
            /\ cb = 1 => At(line, p3) = "]"
            /\ IsSpace(At(line, p4))

\* re.match(r'^\[p\.\d+\]', line)
MatchPage(line) ==
    /\ At(line, 1) = "[" /\ At(line, 2) = "p" /\ At(line, 3) = "."
    /\ \E e \in 5..Len(line) :
           /\ line[e] = "]"
           /\ \A k \in 4..(e - 1) : line[k] \in Digits

\* prev_line.rstrip().endswith(('.', '!', '?', ...)): every listed suffix
\* ends in one of these characters ("u3002" is the ideographic full stop)
EndsSentence(prev_line) ==
    LET r == RStrip(prev_line)
    IN  r # <<>> /\ r[Len(r)] \in {".", "!", "?", "u3002"}

is_paragraph_break(line, prev_line) ==
    IF Strip(line) = <<>> THEN TRUE
    ELSE IF MatchTimestamp(line) THEN TRUE
    ELSE IF At(line, 1) = "#" THEN TRUE
    ELSE IF MatchPage(line) THEN TRUE
    ELSE IF EndsSentence(prev_line) THEN TRUE
    ELSE FALSE

----------------------------------------------------------------------------
(* chunk_text *)

\* the input lines the texts are built from
LinePool ==
    { <<>>,
      <<"a">>,
      <<"b", ".">>,
      <<"1", ":", "2", "3", " ">> }

RECURSIVE SeqsUpTo(_, _)
SeqsUpTo(S, n) ==
    IF n = 0 THEN {<<>>}
    ELSE LET prev == SeqsUpTo(S, n - 1)
         IN  prev \cup {Append(s, e) : s \in {t \in prev : Len(t) = n - 1}, e \in S}

Texts == {JoinNL(ls) : ls \in SeqsUpTo(LinePool, MaxLines) \ {<<>>}}

\* len(text) <= max_size
FitsWholeStrict(t, m) == Len(t) < m

FitsWhole(t, m) == Len(t) <= m

\* 'end_line' of the single chunk
WholeEndLine(ls) == Len(ls) - 1

\* the split point: the last paragraph break when past the 50% mark
SplitAt(cur, lbi) ==
    LET min_break == Len(cur) \div 2
    IN  IF lbi > min_break THEN lbi ELSE Len(cur)

\* chunk_lines[-overlap_lines:] if overlap_lines > 0 else []
OverlapOneLess(chunk_lines, o) ==
    IF o > 1 THEN LastN(chunk_lines, o - 1) ELSE <<>>

Overlap(chunk_lines, o) == IF o > 0 THEN LastN(chunk_lines, o) ELSE <<>>

\* chunk_start + len(chunk_lines) - len(overlap)
NextChunkStartNoOverlap(cs, chunk_lines, overlap) == cs + Len(chunk_lines)

NextChunkStart(cs, chunk_lines, overlap) ==
    cs + Len(chunk_lines) - Len(overlap)

MkChunkEndExclusive(idx, ls, start) ==
    [index |-> idx, text |-> JoinNL(ls), start_line |-> start,
     end_line |-> start + Len(ls)]

MkChunk(idx, ls, start) ==
    [index |-> idx, text |-> JoinNL(ls), start_line |-> start,
     end_line |-> start + Len(ls) - 1]

ChunkIdle ==
    /\ text = <<>> /\ max_size = 1 /\ overlap_lines = 0 /\ lines = <<>>
    /\ chunks = <<>> /\ current_lines = <<>> /\ current_size = 0
    /\ chunk_start = 0 /\ last_break_idx = -1 /\ i = 0 /\ split_log = <<>>
    /\ cpc = "idle"

\* orchestrator.py 84: total_tokens = {'input': 0, 'output': 0}
ZeroTokens == [input |-> 0, output |-> 0]

LoopIdle ==
    /\ total_tokens = ZeroTokens /\ api_usage = ZeroTokens
    /\ impl = "none" /\ max_attempts = 0 /\ min_score = 0 /\ attempt = 0
    /\ lpc = "idle" /\ gen_calls = 0 /\ ver_calls = 0 /\ attempt_log = <<>>
    /\ gen_failed = {} /\ ret = None /\ current_prompt = None
    /\ note = NoCand /\ best_note = NoCand /\ best_result = None
    /\ current_draft = NoCand /\ best_draft = NoCand
    /\ best_critique = None /\ best_score = 0

\* a file that does not exist, and a file holding the text t
NoFile == [exists |-> FALSE, text |-> <<>>]

File(t) == [exists |-> TRUE, text |-> t]

\* the content of a notes_partN.md: nothing there, a file opened for writing
\* and not yet written, the response of a generation call, or the prompt
Absent == [kind |-> "absent", of |-> <<>>, part |-> 0, total |-> 0, size |-> 0]

EmptyFile == [kind |-> "empty", of |-> <<>>, part |-> 0, total |-> 0, size |-> 0]

\* what the run printed before sys.exit(1): the artifact it did not find and
\* the phase it asks to run first
NoMsg == [missing |-> "", run_first |-> 0]

ExitMsg(file, ph) == [missing |-> file, run_first |-> ph]

\* no final document
NoFinal == [strategy |-> "none", files |-> <<>>, contents |-> <<>>]

PhaseIdle ==
    /\ transcript = NoFile
    /\ chunk_files = [p \in 1..MaxParts |-> NoFile]
    /\ notes = [p \in 1..MaxParts |-> Absent]
    /\ final_notes = NoFinal /\ output_copy = NoFinal
    /\ phase = 0
    /\ ppc = "idle" /\ env = "no_key" /\ force = FALSE /\ chunk_size = 0
    /\ no_merge_ai = FALSE /\ p2_chunks = <<>> /\ part_num = 0
    /\ note_content = Absent /\ part_files = <<>> /\ parts = <<>>
    /\ final_content = NoFinal /\ runs = 0 /\ events = <<>>
    /\ notes_at_start = [p \in 1..MaxParts |-> Absent] /\ run_calls = 0
    /\ failed_parts = {} /\ warnings = {} /\ exit_msg = NoMsg /\ prev_done = 0
    /\ after_complete = FALSE

\* no final content yet
NoMerged == [strategy |-> "none", pieces |-> <<>>]

MergeIdle ==
    /\ m_notes = <<>> /\ m_env = "no_key" /\ m_no_merge_ai = FALSE
    /\ m_meta = [video_id |-> FALSE] /\ m_today = 0 /\ m_pc = "idle"
    /\ m_part_files = <<>> /\ m_parts = <<>> /\ m_i = 0 /\ m_mid = <<>>
    /\ m_calls = <<>> /\ m_trace = <<>> /\ m_final = NoMerged /\ m_runs = 0
    /\ m_log = <<>>

CiteIdle ==
    /\ c_note = <<>> /\ c_st = "none" /\ c_before = <<>> /\ c_inserted = FALSE

\* the features of a note that the verification looks at
NoFeatures ==
    [h1 |-> FALSE, h2n |-> 0, cites |-> 0, kw |-> "none", mm |-> "none",
     tree |-> FALSE]

NoScores ==
    [citation |-> 0, structure |-> 0, faithfulness |-> 0, total |-> 0,
     passed |-> FALSE]

ScoreIdle ==
    /\ s_path = "none" /\ s_template = "none" /\ s_st = "none"
    /\ s_note = [text |-> <<>>, feat |-> NoFeatures]
    /\ s_env = "no_key" /\ s_pc = "idle" /\ s_ai = [kind |-> "none", score |-> 0]
    /\ s_result = NoScores

RestIdle == MergeIdle /\ CiteIdle /\ ScoreIdle

ChunkInit ==
    /\ PhaseIdle /\ RestIdle
    /\ text \in Texts
    /\ max_size \in 1..MaxSize
    /\ overlap_lines \in 0..MaxOverlap
    /\ lines = SplitNL(text)
    /\ chunks = <<>>
    /\ current_lines = <<>>
    /\ current_size = 0
    /\ chunk_start = 0
    /\ last_break_idx = -1
    /\ i = 0
    /\ split_log = <<>>
    /\ cpc = "start"
    /\ LoopIdle

\* lines 80-86: the text fits, one chunk
ChunkWhole ==
    /\ cpc = "start"
    /\ UNCHANGED otherThanChunk
    /\ FitsWhole(text, max_size)
    /\ chunks' = <<[index |-> 0, text |-> text, start_line |-> 0,
                    end_line |-> WholeEndLine(lines)]>>
    /\ cpc' = "done"
    /\ UNCHANGED <<text, max_size, overlap_lines, lines, current_lines,
                   current_size, chunk_start, last_break_idx, i, split_log>>

\* lines 88-93
ChunkBegin ==
    /\ cpc = "start"
    /\ UNCHANGED otherThanChunk
    /\ ~FitsWhole(text, max_size)
    /\ cpc' = "loop"
    /\ UNCHANGED <<text, max_size, overlap_lines, lines, chunks, current_lines,
                   current_size, chunk_start, last_break_idx, i, split_log>>

\* lines 96-130: the loop body for one line, on the loop's locals
LineStep(st, line, m, o) ==
    LET line_size == Len(line) + 1
        cur == st.current_lines
        prev_line == IF cur # <<>> THEN cur[Len(cur)] ELSE <<>>
        lbi == IF cur # <<>> /\ is_paragraph_break(line, prev_line)
               THEN Len(cur) ELSE st.last_break_idx
    IN  IF st.current_size + line_size > m /\ cur # <<>>
        THEN LET split_at == SplitAt(cur, lbi)
                 chunk_lines == Slice(cur, 0, split_at)
                 remaining_lines == Slice(cur, split_at, Len(cur))
                 overlap == Overlap(chunk_lines, o)
                 new_lines == overlap \o remaining_lines
             IN  [chunks |-> Append(st.chunks,
                                    MkChunk(Len(st.chunks), chunk_lines, st.chunk_start)),
                  chunk_start |-> NextChunkStart(st.chunk_start, chunk_lines, overlap),
                  current_lines |-> Append(new_lines, line),
                  current_size |-> SizeOf(new_lines) + line_size,
                  last_break_idx |-> -1,
                  split |-> <<[at |-> split_at, cur |-> Len(cur), brk |-> lbi,
                               ov |-> Len(overlap)]>>]
        ELSE [chunks |-> st.chunks,
              chunk_start |-> st.chunk_start,
              current_lines |-> Append(cur, line),
              current_size |-> st.current_size + line_size,
              last_break_idx |-> lbi,
              split |-> <<>>]

\* lines 132-141: the chunks with the last chunk added
WithLastChunk(cs, cur, start) ==
    IF cur # <<>> THEN Append(cs, MkChunk(Len(cs), cur, start)) ELSE cs

\* lines 95-130: one iteration of the loop over the lines
ChunkLine ==
    /\ cpc = "loop"
    /\ UNCHANGED otherThanChunk
    /\ i < Len(lines)
    /\ LET st == LineStep([chunks |-> chunks, chunk_start |-> chunk_start,
                           current_lines |-> current_lines,
                           current_size |-> current_size,
                           last_break_idx |-> last_break_idx],
                          lines[i + 1], max_size, overlap_lines)
       IN  /\ chunks' = st.chunks
           /\ chunk_start' = st.chunk_start
           /\ current_lines' = st.current_lines
           /\ current_size' = st.current_size
           /\ last_break_idx' = st.last_break_idx
           /\ split_log' = split_log \o st.split
    /\ i' = i + 1
    /\ UNCHANGED <<text, max_size, overlap_lines, lines, cpc>>

\* lines 132-141: the last chunk
ChunkLast ==
    /\ cpc = "loop"
    /\ UNCHANGED otherThanChunk
    /\ i = Len(lines)
    /\ chunks' = WithLastChunk(chunks, current_lines, chunk_start)
    /\ cpc' = "done"
    /\ UNCHANGED <<text, max_size, overlap_lines, lines, current_lines,
                   current_size, chunk_start, last_break_idx, i, split_log>>

ChunkNext == ChunkWhole \/ ChunkBegin \/ ChunkLine \/ ChunkLast

SpecChunk == ChunkInit /\ [][ChunkNext]_vars

\* chunk_text(t, m, o) as a function of its arguments
RECURSIVE LinesLoop(_, _, _, _)
LinesLoop(st, ls, m, o) ==
    IF ls = <<>> THEN st
    ELSE LinesLoop(LineStep(st, ls[1], m, o), Tail(ls), m, o)

chunk_text(t, m, o) ==
    IF FitsWhole(t, m)
    THEN <<[index |-> 0, text |-> t, start_line |-> 0,
            end_line |-> WholeEndLine(SplitNL(t))]>>
    ELSE LET st == LinesLoop([chunks |-> <<>>, chunk_start |-> 0,
                              current_lines |-> <<>>, current_size |-> 0,
                              last_break_idx |-> -1], SplitNL(t), m, o)
         IN  WithLastChunk(st.chunks, st.current_lines, st.chunk_start)

----------------------------------------------------------------------------
(* The revision loops: generate_with_verification (note_generator.py) and  *)
(* Orchestrator.generate_note (agents/orchestrator.py).  A candidate is    *)
(* named by the number of the generation call that produced it.            *)

\* sub-scores a verification may compute for a candidate
CitationScores == {40, 100}

StructureScores == {80, 100}

FaithfulnessScores == {50, 80, 100}

\* min_score values a caller may pass (the default is 80)
MinScores == {70, 80, 90}

\* verify_note: int(citation * 0.25 + structure * 0.25 + faithfulness * 0.50);
\* the float sum is exact for integer sub-scores in 0..100
VerifyTotal(c, s, f) == (25 * c + 25 * s + 50 * f) \div 100

\* CriticAgent.run: int(citation * 0.20 + structure * 0.20 + ai * 0.60);
\* the float sum floors to this value for the sub-scores the critic computes
CriticTotal(c, s, f) == (20 * c + 20 * s + 60 * f) \div 100

\* passed = total_score >= 80
PassedAtLeastMinScore(total, m) == total >= m

Passed(total, m) == total >= 80

\* VerificationResult / CritiqueResult, with the candidate it was computed for
MkResult(total, cand, m) ==
    [score |-> total, passed |-> Passed(total, m), of |-> cand]

\* for attempt in range(1, max_attempts + 1): is there an attempt after a
RangeHasNextOffByOne(a, n) == a + 1 <= n + 1

RangeHasNext(a, n) == a + 1 <= n

\* if attempt < max_attempts
AttemptsRemain(a, n) == a < n

\* if best_result is None or result.score > best_result.score
GwvIsBetterOrEqual(result, best) ==
    best = None \/ result.score >= best.score

GwvIsBetter(result, best) ==
    best = None \/ result.score > best.score

\* if critique.score > best_score
OrchIsBetter(score, best) == score > best

\* the prompt generate_with_verification is called with: no feedback block
InitialPrompt == [feedback |-> <<>>]

\* verifier.py format_feedback: the block made of the result of attempt a
\* (its score, and its issues and suggestions)
format_feedback(result, a) == [score |-> result.score, of |-> a]

\* current_prompt = prompt + feedback
PromptAccumulating(prompt, cur, fb) ==
    [cur EXCEPT !.feedback = Append(cur.feedback, fb)]

PromptWithFeedback(prompt, cur, fb) ==
    [prompt EXCEPT !.feedback = Append(prompt.feedback, fb)]

\* base.py 84-87: the usage a collaborator call reports
Usages == {[input |-> 2, output |-> 1]}

\* a call that raised may have used tokens or none
FailedUsages == Usages \cup {ZeroTokens}

\* orchestrator.py 201-204 _add_tokens
add_tokens(total, new) ==
    [input |-> total.input + new.input, output |-> total.output + new.output]

\* critic.py 142-146: the tokens_used of the result of CriticAgent.run
CriticTokensUsed == [input |-> 0, output |-> 0]

LoopInit ==
    /\ PhaseIdle /\ RestIdle
    /\ total_tokens = ZeroTokens
    /\ api_usage = ZeroTokens
    /\ impl \in {"gwv", "orch"}
    /\ max_attempts \in 1..MaxAttempts
    /\ min_score \in MinScores
    /\ attempt = 1
    /\ lpc = IF impl = "gwv" THEN "generate" ELSE "analyze"
    /\ gen_calls = 0
    /\ ver_calls = 0
    /\ attempt_log = <<>>
    /\ gen_failed = {}
    /\ ret = None
    /\ current_prompt = IF impl = "gwv" THEN InitialPrompt ELSE None
    /\ note = NoCand
    /\ best_note = NoCand
    /\ best_result = None
    /\ current_draft = NoCand
    /\ best_draft = NoCand
    /\ best_critique = None
    /\ best_score = 0
    /\ ChunkIdle

\* note_generator.py 168 (and 113-130): the generation call of an attempt; an
\* exception of the call leaves generate_with_verification
GwvGenerate ==
    /\ impl = "gwv"
    /\ lpc = "generate"
    /\ gen_calls' = gen_calls + 1
    /\ \E ok \in BOOLEAN :
           IF ok
           THEN /\ note' = gen_calls + 1
                /\ lpc' = "verify"
                /\ UNCHANGED gen_failed
           ELSE /\ lpc' = "raised"
                /\ gen_failed' = gen_failed \cup {attempt}
                /\ UNCHANGED note
    /\ UNCHANGED <<impl, max_attempts, min_score, attempt, ver_calls,
                   attempt_log, ret, current_prompt, best_note, best_result,
                   current_draft, best_draft, best_critique, best_score>>
    /\ UNCHANGED <<total_tokens, api_usage>>
    /\ UNCHANGED otherThanLoop

\* note_generator.py 171-210: verify the note, record the best, return on a
\* pass, otherwise add the feedback to the prompt or leave the loop
GwvVerify ==
    /\ impl = "gwv"
    /\ lpc = "verify"
    /\ ver_calls' = ver_calls + 1
    /\ \E c \in CitationScores, s \in StructureScores, f \in FaithfulnessScores :
           LET result == MkResult(VerifyTotal(c, s, f), note, min_score)
               better == GwvIsBetter(result, best_result)
               new_best_note == IF better THEN note ELSE best_note
               new_best_result == IF better THEN result ELSE best_result
           IN  /\ attempt_log' = Append(attempt_log,
                      [attempt |-> attempt, cand |-> note, score |-> result.score,
                       passed |-> result.passed, prompt |-> current_prompt])
               /\ best_note' = new_best_note
               /\ best_result' = new_best_result
               /\ IF result.passed
                  THEN /\ ret' = [note |-> note, result |-> result]
                       /\ lpc' = "returned"
                       /\ UNCHANGED <<attempt, current_prompt>>
                  ELSE IF RangeHasNext(attempt, max_attempts)
                  THEN /\ current_prompt' =
                              IF AttemptsRemain(attempt, max_attempts)
                              THEN PromptWithFeedback(
                                       InitialPrompt, current_prompt,
                                       format_feedback(result, attempt))
                              ELSE current_prompt
                       /\ attempt' = attempt + 1
                       /\ lpc' = "generate"
                       /\ UNCHANGED ret
                  ELSE /\ ret' = [note |-> new_best_note,
                                  result |-> new_best_result]
                       /\ lpc' = "returned"
                       /\ UNCHANGED <<attempt, current_prompt>>
    /\ UNCHANGED <<impl, max_attempts, min_score, gen_calls, gen_failed, note,
                   current_draft, best_draft, best_critique, best_score>>
    /\ UNCHANGED <<total_tokens, api_usage>>
    /\ UNCHANGED otherThanLoop

\* orchestrator.py 191-199: the result returned after the loop
OrchResult ==
    [success |-> TRUE, note |-> best_draft, final_critique |-> best_critique,
     attempts |-> attempt]

\* orchestrator.py 94-105: the analysis call; its failure ends the run
OrchAnalyze ==
    /\ impl = "orch"
    /\ lpc = "analyze"
    /\ \E ok \in BOOLEAN :
           IF ok
           THEN /\ lpc' = "write"
                /\ \E u \in Usages :
                      /\ api_usage' = add_tokens(api_usage, u)
                      /\ total_tokens' = add_tokens(total_tokens, u)
                /\ UNCHANGED ret
           ELSE /\ lpc' = "returned_failure"
                /\ \E u \in FailedUsages :
                      api_usage' = add_tokens(api_usage, u)
                /\ UNCHANGED total_tokens
                /\ ret' = [success |-> FALSE, note |-> EmptyNote,
                           final_critique |-> None, attempts |-> 0]
    /\ UNCHANGED <<impl, max_attempts, min_score, attempt, gen_calls, ver_calls,
                   attempt_log, gen_failed, current_prompt, note, best_note,
                   best_result, current_draft, best_draft, best_critique,
                   best_score>>
    /\ UNCHANGED otherThanLoop

\* orchestrator.py 111-133: the initial write; its failure ends the run
OrchWrite ==
    /\ impl = "orch"
    /\ lpc = "write"
    /\ gen_calls' = gen_calls + 1
    /\ \E ok \in BOOLEAN :
           IF ok
           THEN /\ current_draft' = gen_calls + 1
                /\ best_draft' = gen_calls + 1
                /\ lpc' = "critique"
                /\ \E u \in Usages :
                      /\ api_usage' = add_tokens(api_usage, u)
                      /\ total_tokens' = add_tokens(total_tokens, u)
                /\ UNCHANGED <<ret, gen_failed>>
           ELSE /\ lpc' = "returned_failure"
                /\ gen_failed' = gen_failed \cup {attempt}
                /\ \E u \in FailedUsages :
                      api_usage' = add_tokens(api_usage, u)
                /\ UNCHANGED total_tokens
                /\ ret' = [success |-> FALSE, note |-> EmptyNote,
                           final_critique |-> None, attempts |-> 0]
                /\ UNCHANGED <<current_draft, best_draft>>
    /\ UNCHANGED <<impl, max_attempts, min_score, attempt, ver_calls,
                   attempt_log, current_prompt, note, best_note, best_result,
                   best_critique, best_score>>
    /\ UNCHANGED otherThanLoop

\* orchestrator.py 135-169, 183-199: one critique of the current draft; a
\* failed critique goes on to the next attempt, a pass or the last attempt
\* leaves the loop and returns the best draft
OrchCritique ==
    /\ impl = "orch"
    /\ lpc = "critique"
    /\ ver_calls' = ver_calls + 1
    /\ \E u \in FailedUsages : api_usage' = add_tokens(api_usage, u)
    /\ \E ok \in BOOLEAN, c \in CitationScores, s \in StructureScores,
          f \in FaithfulnessScores :
           IF ~ok
           THEN /\ UNCHANGED total_tokens
                /\ IF RangeHasNext(attempt, max_attempts)
                   THEN /\ attempt' = attempt + 1
                        /\ lpc' = "critique"
                        /\ UNCHANGED ret
                   ELSE /\ ret' = OrchResult
                        /\ lpc' = "returned"
                        /\ UNCHANGED attempt
                /\ UNCHANGED <<attempt_log, best_draft, best_critique, best_score>>
           ELSE LET critique == MkResult(CriticTotal(c, s, f), current_draft,
                                         min_score)
                    better == OrchIsBetter(critique.score, best_score)
                    new_draft == IF better THEN current_draft ELSE best_draft
                    new_critique == IF better THEN critique ELSE best_critique
                IN  /\ total_tokens' = add_tokens(total_tokens, CriticTokensUsed)
                    /\ attempt_log' = Append(attempt_log,
                           [attempt |-> attempt, cand |-> current_draft,
                            score |-> critique.score, passed |-> critique.passed,
                            prompt |-> None])
                    /\ best_score' = IF better THEN critique.score ELSE best_score
                    /\ best_draft' = new_draft
                    /\ best_critique' = new_critique
                    /\ IF critique.passed
                       THEN /\ ret' = [success |-> TRUE, note |-> new_draft,
                                       final_critique |-> new_critique,
                                       attempts |-> attempt]
                            /\ lpc' = "returned"
                            /\ UNCHANGED attempt
                       ELSE IF AttemptsRemain(attempt, max_attempts)
                       THEN /\ lpc' = "revise"
                            /\ UNCHANGED <<ret, attempt>>
                       ELSE IF RangeHasNext(attempt, max_attempts)
                       THEN /\ attempt' = attempt + 1
                            /\ lpc' = "critique"
                            /\ UNCHANGED ret
                       ELSE /\ ret' = [success |-> TRUE, note |-> new_draft,
                                       final_critique |-> new_critique,
                                       attempts |-> attempt]
                            /\ lpc' = "returned"
                            /\ UNCHANGED attempt
    /\ UNCHANGED <<impl, max_attempts, min_score, gen_calls, gen_failed,
                   current_prompt, note, best_note, best_result, current_draft>>
    /\ UNCHANGED otherThanLoop

\* orchestrator.py 173-181: the revision call; on failure the draft stays
OrchRevise ==
    /\ impl = "orch"
    /\ lpc = "revise"
    /\ gen_calls' = gen_calls + 1
    /\ \E ok \in BOOLEAN :
           IF ok
           THEN /\ current_draft' = gen_calls + 1
                /\ \E u \in Usages :
                      /\ api_usage' = add_tokens(api_usage, u)
                      /\ total_tokens' = add_tokens(total_tokens, u)
                /\ UNCHANGED gen_failed
           ELSE /\ gen_failed' = gen_failed \cup {attempt}
                /\ \E u \in FailedUsages :
                      api_usage' = add_tokens(api_usage, u)
                /\ UNCHANGED <<current_draft, total_tokens>>
    /\ attempt' = attempt + 1
    /\ lpc' = "critique"
    /\ UNCHANGED <<impl, max_attempts, min_score, ver_calls, attempt_log, ret,
                   current_prompt, note, best_note, best_result, best_draft,
                   best_critique, best_score>>
    /\ UNCHANGED otherThanLoop

LoopNext ==
    \/ GwvGenerate
    \/ GwvVerify
    \/ OrchAnalyze
    \/ OrchWrite
    \/ OrchCritique
    \/ OrchRevise

SpecLoop == LoopInit /\ [][LoopNext]_vars

----------------------------------------------------------------------------
(* phased_pipeline.py: phase2_chunk_notes and phase3_combine, run one after *)
(* the other over one work directory.  A run is a process: it can be        *)
(* interrupted between two steps, and an exception nobody catches ends it.  *)

\* the transcripts phase 1 leaves in the work directory
Transcripts == { JoinNL(<< <<"a">>, <<"b", ".">>, <<"a">> >>) }

\* values of --chunk-size
ChunkSizes == {3, 5, 6}

\* overlap_lines=5 at the call of chunk_text
PhaseOverlap == 5

\* ANTHROPIC_API_KEY unset; set and the anthropic package missing; set and
\* the package installed
Envs == {"no_key", "key_no_sdk", "key_sdk"}

api_key(e) == e # "no_key"

\* lengths of the responses of a generation call
ResponseSizes == {40000, 60000}

\* len(STRUCTURED_NOTE_PROMPT) formatted with an empty chunk
PromptTemplateLen == 568

\* total_chars > 100000
HierarchicalThreshold == 100000

\* create_structured_chunk_prompt: the template around the chunk's text
create_structured_chunk_prompt(c, pn, total) ==
    [kind |-> "prompt", of |-> c, part |-> pn, total |-> total,
     size |-> PromptTemplateLen + Len(c)]

\* response.content[0].text
Response(c, pn, total, sz) ==
    [kind |-> "generated", of |-> c, part |-> pn, total |-> total, size |-> sz]

\* os.path.exists(part_path)
PartExists(pn) == notes[pn].kind # "absent"

\* if os.path.exists(part_path) and not force: continue
SkipExistingIgnoringForce(exists, f) == exists

SkipExisting(exists, f) == exists /\ ~f

\* the characters of str(n)
RECURSIVE Decimal(_)
Decimal(n) == IF n < 10 THEN <<48 + n>> ELSE Decimal(n \div 10) \o <<48 + (n % 10)>>

\* what follows "notes_part" in the file name: str(n) and ".md"
NameTail(n) == Decimal(n) \o <<46, 109, 100>>

\* a < b for two strings of different content, as sorted() compares them
RECURSIVE StrLess(_, _)
StrLess(a, b) ==
    IF a = <<>> THEN b # <<>>
    ELSE IF b = <<>> THEN FALSE
    ELSE IF a[1] # b[1] THEN a[1] < b[1]
    ELSE StrLess(Tail(a), Tail(b))

\* sorted(glob.glob('notes_part*.md')) over the part numbers S
RECURSIVE SortedNames(_)
SortedNames(S) ==
    IF S = {} THEN <<>>
    ELSE LET m == CHOOSE x \in S :
                      \A y \in S \ {x} : StrLess(NameTail(x), NameTail(y))
         IN  <<m>> \o SortedNames(S \ {m})

RECURSIVE TotalChars(_)
TotalChars(ps) == IF ps = <<>> THEN 0 ELSE ps[1].size + TotalChars(Tail(ps))

\* no process is running
Stopped == ppc \in {"idle", "exit_error", "p2_done", "p2_crashed",
                    "p3_done", "p3_crashed", "interrupted"}

\* the work directory as phase 1 leaves it, or without a transcript
PhaseInit ==
    /\ ChunkIdle /\ LoopIdle /\ RestIdle
    /\ transcript \in {NoFile} \cup {File(t) : t \in Transcripts}
    /\ chunk_files = [p \in 1..MaxParts |-> NoFile]
    /\ notes = [p \in 1..MaxParts |-> Absent]
    /\ final_notes = NoFinal /\ output_copy = NoFinal
    /\ phase = 0
    /\ ppc = "idle" /\ env = "no_key" /\ force = FALSE /\ chunk_size = 0
    /\ no_merge_ai = FALSE /\ p2_chunks = <<>> /\ part_num = 0
    /\ note_content = Absent /\ part_files = <<>> /\ parts = <<>>
    /\ final_content = NoFinal /\ runs = 0 /\ events = <<>>
    /\ notes_at_start = [p \in 1..MaxParts |-> Absent] /\ run_calls = 0
    /\ failed_parts = {} /\ warnings = {} /\ exit_msg = NoMsg /\ prev_done = 0
    /\ after_complete = FALSE

\* if not os.path.exists(transcript_path)
MissingNever(f) == FALSE

Missing(f) == ~f.exists

Warning(k, pn) == [kind |-> k, part |-> pn]

\* lines 172-224: phase 2 up to its loop over the chunks.  The import of
\* generators.chunker at line 192 is taken to succeed.
P2Start ==
    /\ Stopped
    /\ UNCHANGED otherThanPhase
    /\ runs < MaxRuns
    /\ runs' = runs + 1
    /\ \E e \in Envs, f \in BOOLEAN, cs \in ChunkSizes :
        /\ env' = e /\ force' = f /\ chunk_size' = cs
        /\ IF Missing(transcript)
           THEN /\ ppc' = "exit_error"
                /\ exit_msg' = ExitMsg("transcript.txt", 1)
                /\ warnings' = {}
                /\ p2_chunks' = <<>>
                /\ UNCHANGED chunk_files
           ELSE LET cks == chunk_text(transcript.text, cs, PhaseOverlap)
                IN  /\ ppc' = "p2_loop"
                    /\ exit_msg' = NoMsg
                    /\ p2_chunks' = cks
                    /\ chunk_files' =
                         [p \in 1..MaxParts |->
                            IF p <= Len(cks) THEN File(cks[p].text)
                            ELSE chunk_files[p]]
                    /\ warnings' = IF api_key(e) THEN {}
                                   ELSE {Warning("no_api_key", 0)}
        /\ after_complete' = (transcript.exists /\ prev_done = cs)
    /\ part_num' = 1
    /\ events' = <<>>
    /\ notes_at_start' = notes
    /\ run_calls' = 0
    /\ failed_parts' = {}
    /\ prev_done' = 0
    /\ note_content' = Absent
    /\ phase' = 2
    \* a new process: the locals of the run before are gone
    /\ no_merge_ai' = FALSE /\ part_files' = <<>> /\ parts' = <<>>
    /\ final_content' = NoFinal
    /\ UNCHANGED <<transcript, notes, final_notes, output_copy>>

Reached(pn, existed, step, called) ==
    [part |-> pn, existed |-> existed, step |-> step, called |-> called,
     env |-> env]

\* lines 233-235: the part's note is there and --force is not given
P2Skip ==
    /\ ppc = "p2_loop"
    /\ UNCHANGED otherThanPhase
    /\ part_num <= Len(p2_chunks)
    /\ SkipExisting(PartExists(part_num), force)
    /\ events' = Append(events, Reached(part_num, TRUE, "skip", FALSE))
    /\ part_num' = part_num + 1
    /\ UNCHANGED <<phase, transcript, chunk_files, notes, final_notes, output_copy,
                   ppc, env, force, chunk_size, no_merge_ai, p2_chunks,
                   note_content, part_files, parts, final_content, runs,
                   notes_at_start, run_calls, failed_parts, warnings,
                   exit_msg, prev_done, after_complete>>

\* lines 239-243 with 427-443: the generation call answers
P2Generate ==
    /\ ppc = "p2_loop"
    /\ UNCHANGED otherThanPhase
    /\ part_num <= Len(p2_chunks)
    /\ ~SkipExisting(PartExists(part_num), force)
    /\ env = "key_sdk"
    /\ \E sz \in ResponseSizes :
         note_content' = Response(p2_chunks[part_num].text, part_num,
                                  Len(p2_chunks), sz)
    /\ run_calls' = run_calls + 1
    /\ events' = Append(events,
                        Reached(part_num, PartExists(part_num), "generate", TRUE))
    /\ ppc' = "p2_open"
    /\ UNCHANGED <<phase, transcript, chunk_files, notes, final_notes, output_copy,
                   env, force, chunk_size, no_merge_ai, p2_chunks, part_num,
                   part_files, parts, final_content, runs, notes_at_start,
                   failed_parts, warnings, exit_msg, prev_done, after_complete>>

\* lines 239-243 with 437-441: client.messages.create raises; nothing in
\* generate_structured_chunk_note, phase2_chunk_notes or main catches it
P2GenerateRaises ==
    /\ ppc = "p2_loop"
    /\ UNCHANGED otherThanPhase
    /\ part_num <= Len(p2_chunks)
    /\ ~SkipExisting(PartExists(part_num), force)
    /\ env = "key_sdk"
    /\ run_calls' = run_calls + 1
    /\ events' = Append(events,
                        Reached(part_num, PartExists(part_num), "generate", TRUE))
    /\ failed_parts' = failed_parts \cup {part_num}
    /\ ppc' = "p2_crashed"
    /\ UNCHANGED <<phase, transcript, chunk_files, notes, final_notes, output_copy,
                   env, force, chunk_size, no_merge_ai, p2_chunks, part_num,
                   note_content, part_files, parts, final_content, runs,
                   notes_at_start, warnings, exit_msg, prev_done,
                   after_complete>>

\* lines 244-248, and 421-425 when the anthropic package is missing: the
\* prompt itself becomes the note's content, no call is made
P2Prompt ==
    /\ ppc = "p2_loop"
    /\ UNCHANGED otherThanPhase
    /\ part_num <= Len(p2_chunks)
    /\ ~SkipExisting(PartExists(part_num), force)
    /\ env # "key_sdk"
    /\ note_content' = create_structured_chunk_prompt(
                           p2_chunks[part_num].text, part_num, Len(p2_chunks))
    /\ warnings' = IF env = "key_no_sdk"
                   THEN warnings \cup {Warning("no_anthropic", part_num)}
                   ELSE warnings
    /\ events' = Append(events,
                        Reached(part_num, PartExists(part_num), "prompt", FALSE))
    /\ ppc' = "p2_open"
    /\ UNCHANGED <<phase, transcript, chunk_files, notes, final_notes, output_copy,
                   env, force, chunk_size, no_merge_ai, p2_chunks, part_num,
                   part_files, parts, final_content, runs, notes_at_start,
                   run_calls, failed_parts, exit_msg, prev_done,
                   after_complete>>

\* line 250: open(part_path, 'w') creates or truncates the file
P2Open ==
    /\ ppc = "p2_open"
    /\ UNCHANGED otherThanPhase
    /\ notes' = [notes EXCEPT ![part_num] = EmptyFile]
    /\ ppc' = "p2_write"
    /\ UNCHANGED <<phase, transcript, chunk_files, final_notes, output_copy, env,
                   force, chunk_size, no_merge_ai, p2_chunks, part_num,
                   note_content, part_files, parts, final_content, runs,
                   events, notes_at_start, run_calls, failed_parts, warnings,
                   exit_msg, prev_done, after_complete>>

\* lines 251-253: f.write(note_content), and on to the next chunk
P2Write ==
    /\ ppc = "p2_write"
    /\ UNCHANGED otherThanPhase
    /\ notes' = [notes EXCEPT ![part_num] = note_content]
    /\ part_num' = part_num + 1
    /\ ppc' = "p2_loop"
    /\ UNCHANGED <<phase, transcript, chunk_files, final_notes, output_copy, env,
                   force, chunk_size, no_merge_ai, p2_chunks, note_content,
                   part_files, parts, final_content, runs, events,
                   notes_at_start, run_calls, failed_parts, warnings,
                   exit_msg, prev_done, after_complete>>

\* lines 255-262: the loop is over
P2Finish ==
    /\ ppc = "p2_loop"
    /\ UNCHANGED otherThanPhase
    /\ part_num > Len(p2_chunks)
    /\ ppc' = "p2_done"
    /\ prev_done' = chunk_size
    /\ UNCHANGED <<phase, transcript, chunk_files, notes, final_notes, output_copy,
                   env, force, chunk_size, no_merge_ai, p2_chunks, part_num,
                   note_content, part_files, parts, final_content, runs,
                   events, notes_at_start, run_calls, failed_parts, warnings,
                   exit_msg, after_complete>>

\* the process is stopped from outside (Ctrl-C, a kill, a power cut)
Interrupt ==
    /\ ppc \in {"p2_loop", "p2_open", "p2_write", "p3_merge", "p3_write",
                "p3_copy"}
    /\ UNCHANGED otherThanPhase
    /\ ppc' = "interrupted"
    \* the process is gone, its locals and what it had done so far with it
    /\ env' = "no_key" /\ force' = FALSE /\ chunk_size' = 0
    /\ no_merge_ai' = FALSE /\ part_num' = 0 /\ note_content' = Absent
    /\ part_files' = <<>> /\ parts' = <<>> /\ final_content' = NoFinal
    /\ events' = <<>> /\ notes_at_start' = notes /\ run_calls' = 0
    /\ failed_parts' = {} /\ warnings' = {} /\ after_complete' = FALSE
    /\ UNCHANGED <<phase, transcript, chunk_files, notes, final_notes, output_copy,
                   p2_chunks, runs, exit_msg, prev_done>>

\* lines 300-309: content = f.read() for every part file
ReadPartsWithTranscript(found) ==
    [k \in 1..Len(found) |-> [notes[found[k]] EXCEPT !.of = transcript.text]]

ReadParts(found) == [k \in 1..Len(found) |-> notes[found[k]]]

\* lines 281-311: phase 3 collects and reads the part files
P3Start ==
    /\ Stopped
    /\ UNCHANGED otherThanPhase
    /\ runs < MaxRuns
    /\ runs' = runs + 1
    /\ \E e \in Envs, nm \in BOOLEAN :
        /\ env' = e /\ no_merge_ai' = nm
    /\ LET found == SortedNames({p \in 1..MaxParts : PartExists(p)})
       IN  /\ part_files' = found
           /\ IF found = <<>>
              THEN /\ ppc' = "exit_error"
                   /\ exit_msg' = ExitMsg("notes_partN.md", 2)
                   /\ parts' = <<>>
              ELSE /\ ppc' = "p3_merge"
                   /\ exit_msg' = NoMsg
                   /\ parts' = ReadParts(found)
    /\ warnings' = {}
    /\ final_content' = NoFinal
    /\ notes_at_start' = notes
    /\ phase' = 3
    /\ run_calls' = 0
    \* a new process: the locals of the run before are gone
    /\ force' = FALSE /\ chunk_size' = 0 /\ part_num' = 0
    /\ note_content' = Absent /\ events' = <<>> /\ failed_parts' = {}
    /\ after_complete' = FALSE
    /\ UNCHANGED <<transcript, chunk_files, notes, final_notes, output_copy,
                   p2_chunks, prev_done>>

\* lines 316-322: the strategy of the AI merge
MergeStrategy(ps) ==
    IF TotalChars(ps) > HierarchicalThreshold THEN "hierarchical" ELSE "thematic"

Merged(strategy) ==
    [strategy |-> strategy, files |-> part_files, contents |-> parts]

\* group_size = 3
GroupSize == 3

\* len(range(0, n, group_size))
NumGroups(n) == (n + GroupSize - 1) \div GroupSize

\* the calls of client.messages.create a merge makes when every call answers:
\* one in merge_thematic; one per group and a last one in merge_hierarchical
MergeCalls(strategy, n) ==
    IF strategy = "hierarchical" THEN NumGroups(n) + 1
    ELSE IF strategy = "thematic" THEN 1
    ELSE 0

\* lines 316-322 with merge_thematic, merge_hierarchical: the calls answer
P3MergeAI ==
    /\ ppc = "p3_merge"
    /\ UNCHANGED otherThanPhase
    /\ env = "key_sdk" /\ ~no_merge_ai
    /\ final_content' = Merged(MergeStrategy(parts))
    /\ run_calls' = run_calls + MergeCalls(MergeStrategy(parts), Len(parts))
    /\ ppc' = "p3_write"
    /\ UNCHANGED <<phase, transcript, chunk_files, notes, final_notes, output_copy,
                   env, force, chunk_size, no_merge_ai, p2_chunks, part_num,
                   note_content, part_files, parts, runs, events,
                   notes_at_start, failed_parts, warnings,
                   exit_msg, prev_done, after_complete>>

\* a call of merge_thematic or merge_hierarchical raises; nothing catches it
P3MergeRaises ==
    /\ ppc = "p3_merge"
    /\ UNCHANGED otherThanPhase
    /\ env = "key_sdk" /\ ~no_merge_ai
    /\ \E k \in 1..MergeCalls(MergeStrategy(parts), Len(parts)) :
         run_calls' = run_calls + k
    /\ ppc' = "p3_crashed"
    /\ UNCHANGED <<phase, transcript, chunk_files, notes, final_notes, output_copy,
                   env, force, chunk_size, no_merge_ai, p2_chunks, part_num,
                   note_content, part_files, parts, final_content, runs,
                   events, notes_at_start, failed_parts, warnings,
                   exit_msg, prev_done, after_complete>>

\* lines 323-325, and the ImportError branch of merge_thematic and
\* merge_hierarchical: merge_simple
P3MergeSimple ==
    /\ ppc = "p3_merge"
    /\ UNCHANGED otherThanPhase
    /\ ~(env = "key_sdk" /\ ~no_merge_ai)
    /\ final_content' = Merged("simple")
    /\ ppc' = "p3_write"
    /\ UNCHANGED <<phase, transcript, chunk_files, notes, final_notes, output_copy,
                   env, force, chunk_size, no_merge_ai, p2_chunks, part_num,
                   note_content, part_files, parts, runs, events,
                   notes_at_start, run_calls, failed_parts, warnings,
                   exit_msg, prev_done, after_complete>>

\* lines 328-330: final_notes.md
P3Write ==
    /\ ppc = "p3_write"
    /\ UNCHANGED otherThanPhase
    /\ final_notes' = final_content
    /\ ppc' = "p3_copy"
    /\ UNCHANGED <<phase, transcript, chunk_files, notes, output_copy, env, force,
                   chunk_size, no_merge_ai, p2_chunks, part_num, note_content,
                   part_files, parts, final_content, runs, events,
                   notes_at_start, run_calls, failed_parts, warnings,
                   exit_msg, prev_done, after_complete>>

\* lines 335-346: the copy in the output folder
P3Copy ==
    /\ ppc = "p3_copy"
    /\ UNCHANGED otherThanPhase
    /\ output_copy' = final_content
    /\ ppc' = "p3_done"
    /\ UNCHANGED <<phase, transcript, chunk_files, notes, final_notes, env, force,
                   chunk_size, no_merge_ai, p2_chunks, part_num, note_content,
                   part_files, parts, final_content, runs, events,
                   notes_at_start, run_calls, failed_parts, warnings,
                   exit_msg, prev_done, after_complete>>

PhaseNext ==
    \/ P2Start \/ P2Skip \/ P2Generate \/ P2GenerateRaises \/ P2Prompt
    \/ P2Open \/ P2Write \/ P2Finish \/ Interrupt
    \/ P3Start \/ P3MergeAI \/ P3MergeRaises \/ P3MergeSimple
    \/ P3Write \/ P3Copy

SpecPhase == PhaseInit /\ [][PhaseNext]_vars

----------------------------------------------------------------------------
(* phased_pipeline.py: phase3_combine with merge_thematic,                  *)
(* merge_hierarchical and merge_simple, one call of the API at a time, on   *)
(* work directories that hold the notes of up to MaxMergeParts parts.       *)

\* len(content) of the notes of a work directory
PartSizes == {10000, 40000, 120000}

\* notes_part1.md .. notes_part<n>.md, each of sz characters
NotesOf(n, sz) == [k \in 1..n |-> [part |-> k, size |-> sz]]

\* the response of a call: a text made from what the prompt held
Summary(stage, input) == [kind |-> "response", stage |-> stage, of |-> input]

Call(fn, stage, input) == [fn |-> fn, stage |-> stage, of |-> input]

\* lines 638-662: the header of merge_simple
Header(meta, date, n) ==
    [kind |-> "header", date |-> date, nparts |-> n, embed |-> meta.video_id]

Sep == [kind |-> "sep"]

Verbatim(part) == [kind |-> "part", content |-> part]

\* if i > 0: combined += "\n\n---\n\n"
SepBeforeEvery(k) == k >= 0

SepBefore(k) == k > 0

\* lines 663-666: the loop of merge_simple from index k on
RECURSIVE SimpleBody(_, _)
SimpleBody(ps, k) ==
    IF k >= Len(ps) THEN <<>>
    ELSE (IF SepBefore(k) THEN <<Sep>> ELSE <<>>)
         \o <<Verbatim(ps[k + 1])>> \o SimpleBody(ps, k + 1)

\* merge_simple(parts, meta) run on the day date
merge_simple(ps, meta, date) ==
    [strategy |-> "simple",
     pieces |-> <<Header(meta, date, Len(ps))>> \o SimpleBody(ps, 0)]

\* if total_chars > 100000
AboveThresholdOrEqual(total) == total >= HierarchicalThreshold

AboveThreshold(total) == total > HierarchicalThreshold

\* range(0, len(parts), group_size): the start of the group after k
NextGroupStartOverlapping(k) == k + GroupSize - 1

NextGroupStart(k) == k + GroupSize

MergeStopped == m_pc \in {"done", "crashed", "exit_error"}

MergeInit ==
    /\ ChunkIdle /\ LoopIdle /\ PhaseIdle /\ CiteIdle /\ ScoreIdle
    /\ \E n \in 0..MaxMergeParts, sz \in PartSizes : m_notes = NotesOf(n, sz)
    /\ m_env \in Envs
    /\ m_no_merge_ai \in BOOLEAN
    /\ m_meta \in {[video_id |-> v] : v \in BOOLEAN}
    /\ m_today = 1
    /\ m_pc = "start"
    /\ m_part_files = <<>> /\ m_parts = <<>> /\ m_i = 0 /\ m_mid = <<>>
    /\ m_calls = <<>> /\ m_trace = <<>> /\ m_final = NoMerged /\ m_runs = 1
    /\ m_log = <<>>

\* lines 281-311: collect and read the part files
MStart ==
    /\ m_pc = "start"
    /\ UNCHANGED otherThanMerge
    /\ LET found == SortedNames(DOMAIN m_notes)
       IN  /\ m_part_files' = found
           /\ m_parts' = [k \in 1..Len(found) |-> m_notes[found[k]]]
           /\ m_pc' = IF found = <<>> THEN "exit_error" ELSE "merge"
    /\ UNCHANGED <<m_notes, m_env, m_no_merge_ai, m_meta, m_today, m_i, m_mid,
                   m_calls, m_trace, m_final, m_runs, m_log>>

\* lines 313-325 and the import of anthropic at the head of merge_thematic
\* (514-518) and merge_hierarchical (562-566)
MChoose ==
    /\ m_pc = "merge"
    /\ UNCHANGED otherThanMerge
    /\ IF api_key(m_env) /\ ~m_no_merge_ai
       THEN LET fn == IF AboveThreshold(TotalChars(m_parts))
                      THEN "merge_hierarchical" ELSE "merge_thematic"
            IN  IF m_env = "key_no_sdk"
                THEN /\ m_trace' = <<fn, "merge_simple">>
                     /\ m_pc' = "simple"
                ELSE /\ m_trace' = <<fn>>
                     /\ m_pc' = IF fn = "merge_hierarchical"
                                THEN "hier_loop" ELSE "them_call"
       ELSE /\ m_trace' = <<"merge_simple">>
            /\ m_pc' = "simple"
    /\ m_i' = 0
    /\ m_mid' = <<>>
    /\ UNCHANGED <<m_notes, m_env, m_no_merge_ai, m_meta, m_today,
                   m_part_files, m_parts, m_calls, m_final, m_runs, m_log>>

\* lines 520-553: the one call of merge_thematic
MThematicCall ==
    /\ m_pc = "them_call"
    /\ UNCHANGED otherThanMerge
    /\ m_calls' = Append(m_calls, Call("merge_thematic", "thematic", m_parts))
    /\ \E ok \in BOOLEAN :
         IF ok
         THEN /\ m_final' = [strategy |-> "thematic",
                             pieces |-> <<Summary("thematic", m_parts)>>]
              /\ m_pc' = "write"
         ELSE /\ m_pc' = "crashed"
              /\ UNCHANGED m_final
    /\ UNCHANGED <<m_notes, m_env, m_no_merge_ai, m_meta, m_today,
                   m_part_files, m_parts, m_i, m_mid, m_trace, m_runs, m_log>>

\* lines 571-591: one round of the loop over the groups
MHierGroupCall ==
    /\ m_pc = "hier_loop"
    /\ UNCHANGED otherThanMerge
    /\ m_i < Len(m_parts)
    /\ LET group == Slice(m_parts, m_i, m_i + GroupSize)
       IN  /\ m_calls' = Append(m_calls, Call("merge_hierarchical", "group", group))
           /\ \E ok \in BOOLEAN :
                IF ok
                THEN /\ m_mid' = Append(m_mid, Summary("group", group))
                     /\ m_i' = NextGroupStart(m_i)
                     /\ UNCHANGED m_pc
                ELSE /\ m_pc' = "crashed"
                     /\ UNCHANGED <<m_mid, m_i>>
    /\ UNCHANGED <<m_notes, m_env, m_no_merge_ai, m_meta, m_today,
                   m_part_files, m_parts, m_trace, m_final, m_runs, m_log>>

\* lines 593-629: the last call, over the summaries of the groups
MHierFinalCall ==
    /\ m_pc = "hier_loop"
    /\ UNCHANGED otherThanMerge
    /\ m_i >= Len(m_parts)
    /\ m_calls' = Append(m_calls, Call("merge_hierarchical", "final", m_mid))
    /\ \E ok \in BOOLEAN :
         IF ok
         THEN /\ m_final' = [strategy |-> "hierarchical",
                             pieces |-> <<Summary("final", m_mid)>>]
              /\ m_pc' = "write"
         ELSE /\ m_pc' = "crashed"
              /\ UNCHANGED m_final
    /\ UNCHANGED <<m_notes, m_env, m_no_merge_ai, m_meta, m_today,
                   m_part_files, m_parts, m_i, m_mid, m_trace, m_runs, m_log>>

\* lines 632-667: merge_simple
MSimple ==
    /\ m_pc = "simple"
    /\ UNCHANGED otherThanMerge
    /\ m_final' = merge_simple(m_parts, m_meta, m_today)
    /\ m_pc' = "write"
    /\ UNCHANGED <<m_notes, m_env, m_no_merge_ai, m_meta, m_today,
                   m_part_files, m_parts, m_i, m_mid, m_calls, m_trace,
                   m_runs, m_log>>

\* lines 327-346: final_notes.md and its copy
MWrite ==
    /\ m_pc = "write"
    /\ UNCHANGED otherThanMerge
    /\ m_log' = Append(m_log, [parts |-> m_parts, meta |-> m_meta,
                               date |-> m_today, trace |-> m_trace,
                               calls |-> Len(m_calls), final |-> m_final])
    /\ m_pc' = "done"
    /\ UNCHANGED <<m_notes, m_env, m_no_merge_ai, m_meta, m_today,
                   m_part_files, m_parts, m_i, m_mid, m_calls, m_trace,
                   m_final, m_runs>>

\* phase 3 is run again on the same work directory, the same or the next day
MRerun ==
    /\ MergeStopped
    /\ UNCHANGED otherThanMerge
    /\ m_runs < MaxMergeRuns
    /\ m_runs' = m_runs + 1
    /\ m_no_merge_ai' \in BOOLEAN
    /\ m_today' \in {m_today, m_today + 1}
    /\ m_pc' = "start"
    /\ m_part_files' = <<>> /\ m_parts' = <<>> /\ m_i' = 0 /\ m_mid' = <<>>
    /\ m_calls' = <<>> /\ m_trace' = <<>> /\ m_final' = NoMerged
    /\ UNCHANGED <<m_notes, m_env, m_meta, m_log>>

MergeNext ==
    \/ MStart \/ MChoose \/ MThematicCall \/ MHierGroupCall \/ MHierFinalCall
    \/ MSimple \/ MWrite \/ MRerun

SpecMerge == MergeInit /\ [][MergeNext]_vars

----------------------------------------------------------------------------
(* verifier.py verify_citations and critic.py CriticAgent._verify_citations *)
(* on notes taken character by character.                                   *)

\* the source types with a pattern of their own ('video' shares youtube's)
SourceTypes == {"youtube", "pdf", "web"}

\* a well-formed citation marker of the source type
Marker(st) ==
    IF st = "pdf" THEN <<"[", "p", ".", "4", "]">>
    ELSE IF st = "web" THEN <<"[", "a", "]">>
    ELSE <<"[", "1", ":", "2", "3", "]">>

\* what a note is made of: markers, plain text, brackets that cite nothing
Pieces(st) ==
    {Marker(st), <<"x", "x", "x", "x", "x", "x">>, <<"[">>, <<"]">>}

RECURSIVE Concat(_)
Concat(ss) == IF ss = <<>> THEN <<>> ELSE ss[1] \o Concat(Tail(ss))

CiteNotes(st) == {Concat(ss) : ss \in SeqsUpTo(Pieces(st), MaxPieces)}

AllDigits(s, a, b) == \A k \in a..b : At(s, k) \in Digits

\* r'\[(\d{1,2}:\d{2}(:\d{2})?)\]' at position p (from 1): the length of the
\* match, 0 when there is none
MatchYoutube(s, p) ==
    IF At(s, p) # "[" THEN 0
    ELSE LET ok(nd, sec) ==
                 /\ AllDigits(s, p + 1, p + nd)
                 /\ At(s, p + nd + 1) = ":"
                 /\ AllDigits(s, p + nd + 2, p + nd + 3)
                 /\ sec = 1 => /\ At(s, p + nd + 4) = ":"
                               /\ AllDigits(s, p + nd + 5, p + nd + 6)
                 /\ At(s, p + nd + 4 + 3 * sec) = "]"
             len(nd, sec) == nd + 5 + 3 * sec
         IN  IF ok(2, 1) THEN len(2, 1)
             ELSE IF ok(2, 0) THEN len(2, 0)
             ELSE IF ok(1, 1) THEN len(1, 1)
             ELSE IF ok(1, 0) THEN len(1, 0)
             ELSE 0

\* the first position from p on that holds no character of S
RECURSIVE SkipWhile(_, _, _)
SkipWhile(s, p, S) ==
    IF p <= Len(s) /\ s[p] \in S THEN SkipWhile(s, p + 1, S) ELSE p

\* r'\[(p\.?\s*\d+)\]' at position p
MatchPdf(s, p) ==
    IF At(s, p) # "[" \/ At(s, p + 1) # "p" THEN 0
    ELSE LET a == IF At(s, p + 2) = "." THEN p + 3 ELSE p + 2
             b == SkipWhile(s, a, {" ", "\t", "\n"})
             e == SkipWhile(s, b, Digits)
         IN  IF e > b /\ At(s, e) = "]" THEN e - p + 1 ELSE 0

\* r'\[([^\]]+)\]' at position p
MatchWeb(s, p) ==
    IF At(s, p) # "[" THEN 0
    ELSE LET e == SkipWhile(s, p + 1, {"[", "x", "a", "p", ".", ":"} \cup Digits)
         IN  IF e > p + 1 /\ At(s, e) = "]" THEN e - p + 1 ELSE 0

\* CITATION_PATTERNS.get(source_type, CITATION_PATTERNS['youtube'])
MatchAt(s, p, st) ==
    IF st = "pdf" THEN MatchPdf(s, p)
    ELSE IF st = "web" THEN MatchWeb(s, p)
    ELSE MatchYoutube(s, p)

\* len(re.findall(pattern, note)): matches from the left, not overlapping
RECURSIVE CountFrom(_, _, _)
CountFrom(s, p, st) ==
    IF p > Len(s) THEN 0
    ELSE LET n == MatchAt(s, p, st)
         IN  IF n > 0 THEN 1 + CountFrom(s, p + n, st)
             ELSE CountFrom(s, p + 1, st)

citation_count(nt, st) == CountFrom(nt, 1, st)

\* note.find('['), note.rfind(']'): 0-based, -1 when there is none
Find(s, c) ==
    IF \E k \in 1..Len(s) : s[k] = c
    THEN (CHOOSE k \in 1..Len(s) : s[k] = c /\ \A j \in 1..(k - 1) : s[j] # c) - 1
    ELSE -1

RFind(s, c) ==
    IF \E k \in 1..Len(s) : s[k] = c
    THEN (CHOOSE k \in 1..Len(s) :
              s[k] = c /\ \A j \in (k + 1)..Len(s) : s[j] # c) - 1
    ELSE -1

\* the score by the number of citations
BaseScore(n) ==
    IF n = 0 THEN 0 ELSE IF n < 3 THEN 40 ELSE IF n < 5 THEN 70 ELSE 100

\* first_citation > note_length * 0.3
FirstLateReversed(first, len) == 10 * first < 3 * len

FirstLate(first, len) == 10 * first > 3 * len

\* last_citation < note_length * 0.7
LastEarly(last, len) == 10 * last < 7 * len

\* verifier.py verify_citations: the score
verify_citations(nt, st) ==
    LET n == citation_count(nt, st)
        score == BaseScore(n)
        s1 == IF n > 0 /\ FirstLate(Find(nt, "["), Len(nt))
              THEN Max(0, score - 10) ELSE score
        s2 == IF n > 0 /\ LastEarly(RFind(nt, "]"), Len(nt))
              THEN Max(0, s1 - 10) ELSE s1
    IN  s2

\* critic.py CriticAgent._verify_citations: the score
critic_verify_citations(nt, st) == BaseScore(citation_count(nt, st))

CiteInit ==
    /\ ChunkIdle /\ LoopIdle /\ PhaseIdle /\ MergeIdle /\ ScoreIdle
    /\ c_st \in SourceTypes
    /\ c_note \in CiteNotes(c_st)
    /\ c_before = c_note
    /\ c_inserted = FALSE

\* one more well-formed marker is put into the note at any position
CiteInsert ==
    /\ ~c_inserted
    /\ UNCHANGED otherThanCite
    /\ \E pos \in 0..Len(c_note) :
         c_note' = Slice(c_note, 0, pos) \o Marker(c_st)
                   \o Slice(c_note, pos, Len(c_note))
    /\ c_before' = c_note
    /\ c_inserted' = TRUE
    /\ UNCHANGED c_st

CiteNext == CiteInsert

SpecCite == CiteInit /\ [][CiteNext]_vars

----------------------------------------------------------------------------
(* verifier.py verify_note and critic.py CriticAgent.run: the three         *)
(* sub-scores of a note, their weighted total and the verdict.  A note is   *)
(* a sequence of characters; a Hangul syllable, a box-drawing character or *)
(* a backtick is one character, written here by its name.                  *)

\* template names; "custom" has no entry in REQUIRED_SECTIONS
Templates == {"detailed", "essence", "easy", "mindmap", "custom"}

H1 == <<"#", " ">>
H2 == <<"#", "#", " ">>
\* three backticks and "mermaid"
Fence ==
    <<"backtick", "backtick", "backtick", "m", "e", "r", "m", "a", "i", "d">>
MindmapWord == <<"m", "i", "n", "d", "m", "a", "p">>
Root == <<"r", "o", "o", "t">>
TreeChars == {"tee", "corner", "bar"}

\* required_keywords of 'essence': haeksim, gwangye, yoyak
EssenceKeywords == << <<"haek", "sim">>, <<"gwan", "gye">>, <<"yo", "yak">> >>

\* required_keywords of 'easy': 'kkok araya', 'han jul'
EasyKeywords == << <<"kkok", " ", "al", "a", "ya">>, <<"han", " ", "jul">> >>

\* REQUIRED_SECTIONS of verifier.py
VerifierRules(t) ==
    IF t = "essence"
    THEN [markers |-> <<H1, H2>>, required_keywords |-> EssenceKeywords,
          min_sections |-> 0, tree_chars |-> {}]
    ELSE IF t = "easy"
    THEN [markers |-> <<H1, H2>>, required_keywords |-> EasyKeywords,
          min_sections |-> 0, tree_chars |-> {}]
    ELSE IF t = "mindmap"
    THEN [markers |-> <<H1, Fence, MindmapWord>>,
          required_keywords |-> <<Root>>,
          min_sections |-> 0, tree_chars |-> TreeChars]
    ELSE [markers |-> <<H1, H2>>, required_keywords |-> <<>>,
          min_sections |-> 3, tree_chars |-> {}]

\* REQUIRED_SECTIONS of critic.py: 'root' is not a keyword there
CriticRules(t) ==
    IF t = "mindmap"
    THEN [VerifierRules(t) EXCEPT !.required_keywords = <<>>]
    ELSE VerifierRules(t)

\* str.lower() on the characters that occur
Lower(s) == [k \in 1..Len(s) |-> IF s[k] = "R" THEN "r" ELSE s[k]]

\* sub in s
Contains(s, sub) ==
    \E p \in 1..(Len(s) - Len(sub) + 1) : SubSeq(s, p, p + Len(sub) - 1) = sub

\* s.count(sub): occurrences that do not overlap, from position p on
RECURSIVE CountSub(_, _, _)
CountSub(s, sub, p) ==
    IF p + Len(sub) - 1 > Len(s) THEN 0
    ELSE IF SubSeq(s, p, p + Len(sub) - 1) = sub
         THEN 1 + CountSub(s, sub, p + Len(sub))
         ELSE CountSub(s, sub, p + 1)

\* score -= 20 for a marker that is not in the note
MarkerPenalty == 20

\* score -= 15 for a keyword that is not in the note
KeywordPenalty == 15

\* what the missing markers cost
MarkerLossHalved(missing) == 10 * missing

MarkerLoss(missing) == MarkerPenalty * missing

RECURSIVE MissingMarkers(_, _)
MissingMarkers(ms, nt) ==
    IF ms = <<>> THEN 0
    ELSE (IF Contains(nt, ms[1]) THEN 0 ELSE 1) + MissingMarkers(Tail(ms), nt)

RECURSIVE MissingKeywords(_, _)
MissingKeywords(ks, nt) ==
    IF ks = <<>> THEN 0
    ELSE (IF Contains(Lower(nt), Lower(ks[1])) THEN 0 ELSE 1)
         + MissingKeywords(Tail(ks), nt)

\* verifier.py verify_structure
verify_structure(nt, t) ==
    LET rules == VerifierRules(t)
        h2_count == CountSub(nt, <<NL>> \o H2, 1)
        score == 100
                 - MarkerLoss(MissingMarkers(rules.markers, nt))
                 - KeywordPenalty * MissingKeywords(rules.required_keywords, nt)
                 - (IF rules.min_sections > 0 /\ h2_count < rules.min_sections
                    THEN 15 ELSE 0)
                 - (IF t = "mindmap" /\ ~Contains(nt, Fence) THEN 30 ELSE 0)
                 - (IF t = "mindmap" /\ ~(\E c \in rules.tree_chars :
                                              Contains(nt, <<c>>))
                    THEN 20 ELSE 0)
    IN  Max(0, score)

\* critic.py CriticAgent._verify_structure
critic_verify_structure(nt, t) ==
    LET rules == CriticRules(t)
        score == 100
                 - MarkerLoss(MissingMarkers(rules.markers, nt))
                 - KeywordPenalty * MissingKeywords(rules.required_keywords, nt)
                 - (IF t = "mindmap" /\ ~Contains(nt, Fence) THEN 30 ELSE 0)
    IN  Max(0, score)

\* what the notes under check are made of
Features ==
    [h1 : BOOLEAN, h2n : {0, 1, 3}, cites : {0, 5},
     kw : {"none", "first", "all"}, mm : {"none", "fence", "full"},
     tree : BOOLEAN]

RECURSIVE Repeat(_, _)
Repeat(s, n) == IF n = 0 THEN <<>> ELSE s \o Repeat(s, n - 1)

\* the note with these features: title, sections with their citations,
\* keywords, diagram, tree
Render(ft, st) ==
    (IF ft.h1 THEN H1 \o <<"T">> ELSE <<>>)
    \o Repeat(<<NL>> \o H2 \o <<"s">>, ft.h2n)
    \o Repeat(<<NL>> \o Marker(st) \o <<"x">>, ft.cites)
    \o (IF ft.kw = "none" THEN <<>>
        ELSE IF ft.kw = "first"
        THEN <<NL>> \o EssenceKeywords[1] \o <<NL>> \o EasyKeywords[1]
        ELSE <<NL>> \o Concat(EssenceKeywords) \o <<NL>> \o EasyKeywords[1]
             \o <<NL>> \o EasyKeywords[2] \o <<NL, "R", "o", "o", "t">>)
    \o (IF ft.mm = "none" THEN <<>>
        ELSE IF ft.mm = "fence" THEN <<NL>> \o Fence
        ELSE <<NL>> \o Fence \o <<NL>> \o MindmapWord)
    \o (IF ft.tree THEN <<NL, "tee">> ELSE <<>>)

\* the score a parsed response can carry
AiScores == {0, 50, 79, 80, 95, 100}

\* what becomes of the faithfulness call: the credential is missing, the
\* client library is missing, the call raises (unreachable, API error), the
\* response is not JSON, the JSON has no 'score', the JSON has a score
AiOutcomes(e) ==
    IF e = "no_key" THEN {[kind |-> "no_key", score |-> 0]}
    ELSE IF e = "key_no_sdk" THEN {[kind |-> "no_sdk", score |-> 0]}
    ELSE {[kind |-> k, score |-> 0] : k \in {"raises", "unparsable", "no_score"}}
         \cup {[kind |-> "score", score |-> f] : f \in AiScores}

\* the neutral default
DefaultFaithfulness == 80

\* except json.JSONDecodeError: return 70
VerifierUnparsable == 70

\* CriticAgent._verify_with_ai, except Exception: return 75
CriticFailure == 75

\* verifier.py lines 304-312 with verify_faithfulness
verify_faithfulness(ai) ==
    IF ai.kind = "no_key" THEN DefaultFaithfulness
    ELSE IF ai.kind = "no_sdk" THEN DefaultFaithfulness
    ELSE IF ai.kind = "raises" THEN DefaultFaithfulness
    ELSE IF ai.kind = "unparsable" THEN VerifierUnparsable
    ELSE IF ai.kind = "no_score" THEN DefaultFaithfulness
    ELSE ai.score

\* critic.py _verify_with_ai: the client property, _call_api and _parse_json
\* are all inside the try
critic_verify_with_ai(ai) ==
    IF ai.kind \in {"no_key", "no_sdk", "raises", "unparsable"}
    THEN CriticFailure
    ELSE IF ai.kind = "no_score" THEN DefaultFaithfulness
    ELSE ai.score

ScoreInit ==
    /\ ChunkIdle /\ LoopIdle /\ PhaseIdle /\ MergeIdle /\ CiteIdle
    /\ s_st \in SourceTypes
    /\ \E ft \in Features : s_note = [text |-> Render(ft, s_st), feat |-> ft]
    /\ s_path = "none" /\ s_template = "none" /\ s_env = "no_key"
    /\ s_pc = "idle" /\ s_ai = [kind |-> "none", score |-> 0]
    /\ s_result = NoScores

\* verifier.py verify_note
VerifyNoteCall ==
    /\ s_pc = "idle"
    /\ UNCHANGED otherThanScore
    /\ \E c \in {verify_citations(s_note.text, s_st)} :
         \E t \in Templates :
           \E s \in {verify_structure(s_note.text, t)} :
             \E e \in Envs :
               \E ai \in AiOutcomes(e) :
                  LET f == verify_faithfulness(ai)
                      total == VerifyTotal(c, s, f)
                  IN  /\ s_template' = t /\ s_env' = e /\ s_ai' = ai
                      /\ s_result' = [citation |-> c, structure |-> s,
                                      faithfulness |-> f, total |-> total,
                                      passed |-> Passed(total, 80)]
    /\ s_path' = "verify"
    /\ s_pc' = "done"
    /\ UNCHANGED <<s_st, s_note>>

\* critic.py CriticAgent.run
CriticRunCall ==
    /\ s_pc = "idle"
    /\ UNCHANGED otherThanScore
    /\ \E c \in {critic_verify_citations(s_note.text, s_st)} :
         \E t \in Templates :
           \E s \in {critic_verify_structure(s_note.text, t)} :
             \E e \in Envs :
               \E ai \in AiOutcomes(e) :
                  LET f == critic_verify_with_ai(ai)
                      total == CriticTotal(c, s, f)
                  IN  /\ s_template' = t /\ s_env' = e /\ s_ai' = ai
                      /\ s_result' = [citation |-> c, structure |-> s,
                                      faithfulness |-> f, total |-> total,
                                      passed |-> Passed(total, 80)]
    /\ s_path' = "critic"
    /\ s_pc' = "done"
    /\ UNCHANGED <<s_st, s_note>>

ScoreNext == VerifyNoteCall \/ CriticRunCall

SpecScore == ScoreInit /\ [][ScoreNext]_vars

----------------------------------------------------------------------------
(* Claims about chunk_text, checked under SpecChunk *)

\* source lines a..b (0-based, inclusive)
SourceLines(a, b) == SubSeq(lines, a + 1, b + 1)

\* a chunk's lines after dropping its declared overlap with the chunk before
RECURSIVE DropOverlapConcat(_, _)
DropOverlapConcat(cs, prev_end) ==
    IF cs = <<>> THEN <<>>
    ELSE LET c == cs[1]
             own == SplitNL(c.text)
             dropped == Max(prev_end - c.start_line + 1, 0)
         IN  SubSeq(own, dropped + 1, Len(own))
             \o DropOverlapConcat(Tail(cs), c.end_line)

\* C1: the chunks have indices 0..k-1, start at line 0, end at the last line,
\* leave no gap, each holds exactly its source lines; dropping the declared
\* overlaps and concatenating gives back the source lines in order.
C1_ChunksCoverSource ==
    cpc = "done" =>
        /\ Len(chunks) >= 1
        /\ \A k \in 1..Len(chunks) : chunks[k].index = k - 1
        /\ chunks[1].start_line = 0
        /\ chunks[Len(chunks)].end_line = Len(SplitNL(text)) - 1
        /\ \A k \in 2..Len(chunks) :
               chunks[k].start_line <= chunks[k - 1].end_line + 1
        /\ \A k \in 1..Len(chunks) :
               chunks[k].text =
                   JoinNL(SourceLines(chunks[k].start_line, chunks[k].end_line))
        /\ DropOverlapConcat(chunks, -1) = SplitNL(text)

\* three chunks, the later ones starting with lines of the chunk before
C1_Witness ==
    /\ cpc = "done"
    /\ Len(chunks) >= 3
    /\ overlap_lines >= 1
    /\ chunks[2].start_line <= chunks[1].end_line
    /\ chunks[3].start_line <= chunks[2].end_line

\* C2: every chunk's text has at most max_size characters.
C2_ChunksSizeBounded ==
    cpc = "done" => \A k \in 1..Len(chunks) : Len(chunks[k].text) <= max_size

\* C3: a text of at most max_size characters gives exactly one chunk, index 0,
\* lines 0..last, holding the whole text, whatever overlap_lines is.
C3_SmallTextOneChunk ==
    (cpc = "done" /\ Len(text) <= max_size) =>
        chunks = <<[index |-> 0, text |-> text, start_line |-> 0,
                    end_line |-> Len(SplitNL(text)) - 1]>>

C3_Witness ==
    /\ cpc = "done"
    /\ Len(text) = max_size
    /\ Len(lines) >= 3
    /\ overlap_lines >= 1
    /\ Len(chunks) = 1

\* the number of lines of a chunk
Span(c) == c.end_line - c.start_line + 1

\* the lines chunk j shares with chunk j+1: overlap_lines of them, or all of
\* chunk j when it has fewer
SharedLines(j) == Min(overlap_lines, Span(chunks[j]))

RECURSIVE SumSpans(_)
SumSpans(cs) == IF cs = <<>> THEN 0 ELSE Span(cs[1]) + SumSpans(Tail(cs))

RECURSIVE SumShared(_)
SumShared(j) == IF j = 0 THEN 0 ELSE SharedLines(j) + SumShared(j - 1)

\* a text was split into two or more chunks with an overlap of one or more
\* lines
SplitWithOverlap == cpc = "done" /\ overlap_lines >= 1 /\ Len(chunks) >= 2

\* chunk j+1 begins with the last n lines of chunk j, at their line numbers
BeginsWithTail(j, n) ==
    LET prev == SplitNL(chunks[j].text)
        next == SplitNL(chunks[j + 1].text)
    IN  /\ chunks[j + 1].start_line = chunks[j].end_line - n + 1
        /\ chunks[j + 1].start_line <= chunks[j].end_line
        /\ Len(next) >= n
        /\ Slice(next, 0, n) = LastN(prev, n)

\* C18: with an overlap of o >= 1 lines and two or more chunks, every chunk
\* after the first begins with the last min(o, number of lines of the chunk
\* just closed) lines of that chunk, and the chunks' line spans less the
\* shared lines of every join add up to the source's line count
C18_ChunkBeginsWithTailOfPrevious ==
    SplitWithOverlap =>
        /\ \A j \in 1..(Len(chunks) - 1) : BeginsWithTail(j, SharedLines(j))
        /\ SumSpans(chunks) - SumShared(Len(chunks) - 1) = Len(lines)

C18_Witness ==
    /\ SplitWithOverlap
    /\ overlap_lines = 2
    /\ \E j \in 1..(Len(chunks) - 1) : Span(chunks[j]) >= 2
    /\ \E j \in 1..(Len(chunks) - 1) : Span(chunks[j]) = 1

\* C18 as stated: every chunk after the first begins with exactly the last o
\* lines of the chunk just closed, and the spans less o per join add up to
\* the source's line count
C18_ExactlyOverlapLines ==
    SplitWithOverlap =>
        /\ \A j \in 1..(Len(chunks) - 1) : BeginsWithTail(j, overlap_lines)
        /\ SumSpans(chunks) - overlap_lines * (Len(chunks) - 1) = Len(lines)

\* C21: every split closes the chunk at the last recorded paragraph boundary
\* when that boundary lies at or after half of the current chunk's lines
\* (exactly half included), and right before the current line otherwise
C21_SplitAtBoundaryFromHalf ==
    \A k \in 1..Len(split_log) :
        LET sp == split_log[k]
        IN  IF sp.brk >= 0 /\ 2 * sp.brk >= sp.cur
            THEN sp.at = sp.brk
            ELSE sp.at = sp.cur

\* the source lines chunk j holds
LinesOf(j) == chunks[j].start_line..chunks[j].end_line

\* the chunks advance: each holds one or more source lines, the line ranges
\* lie in the source, end_line grows strictly, start_line never falls back,
\* and each chunk holds a line that no earlier chunk holds
ChunksAdvance ==
    /\ Len(chunks) >= 1
    /\ \A j \in 1..Len(chunks) :
          /\ chunks[j].index = j - 1
          /\ Span(chunks[j]) >= 1
          /\ chunks[j].start_line >= 0
          /\ chunks[j].end_line <= Len(lines) - 1
          /\ chunks[j].text =
                JoinNL(SourceLines(chunks[j].start_line, chunks[j].end_line))
          /\ \E l \in LinesOf(j) : \A k \in 1..(j - 1) : l \notin LinesOf(k)
    /\ \A j \in 1..(Len(chunks) - 1) :
          /\ chunks[j + 1].end_line > chunks[j].end_line
          /\ chunks[j + 1].start_line >= chunks[j].start_line
    /\ Len(chunks) <= Len(lines)

\* C28: the chunks chunk_text returns have strictly increasing end_line and
\* non-decreasing start_line, every chunk holds at least one source line and
\* one that no earlier chunk holds, and there are no more chunks than source
\* lines (the text of a chunk whose lines are all empty is the empty string)
C28_ChunksAdvance == cpc = "done" => ChunksAdvance

C28_Witness ==
    /\ cpc = "done" /\ overlap_lines >= 1
    /\ Len(chunks) >= 3
    /\ \E j \in 1..(Len(chunks) - 1) :
          chunks[j + 1].start_line = chunks[j].start_line
    /\ \E j \in 1..Len(chunks) : chunks[j].text = <<>>

\* C28 as stated, a non-empty chunk being one whose text is not empty
C28_ChunksAdvanceNonEmptyText ==
    cpc = "done" =>
        /\ ChunksAdvance
        /\ \A j \in 1..Len(chunks) : chunks[j].text # <<>>

----------------------------------------------------------------------------
(* Claims about the revision loops, checked under SpecLoop *)

LoopEnded == lpc \in {"returned", "raised", "returned_failure"}

\* the candidate and the score a finished run hands back
RetNote == ret.note

RetResult == IF impl = "gwv" THEN ret.result ELSE ret.final_critique

NoAttemptPassed == \A k \in 1..Len(attempt_log) : ~attempt_log[k].passed

C5_PassedIffAtLeastMinScore ==
    \A k \in 1..Len(attempt_log) :
        LET e == attempt_log[k]
        IN  /\ e.score >= min_score =>
                   /\ k = Len(attempt_log)
                   /\ lpc = "returned"
                   /\ RetNote = e.cand
            /\ e.score < min_score => ~e.passed

\* the earliest attempt with the highest total
BestAttempt ==
    CHOOSE k \in 1..Len(attempt_log) :
        /\ \A j \in 1..Len(attempt_log) :
               attempt_log[j].score <= attempt_log[k].score
        /\ \A j \in 1..(k - 1) : attempt_log[j].score < attempt_log[k].score

\* C6: when the loop returns after max_attempts attempts without a pass, the
\* returned candidate and score are those of the earliest attempt with the
\* highest total, and the score was computed for the returned candidate.
C6_ReturnsEarliestBest ==
    (lpc = "returned" /\ NoAttemptPassed /\ attempt_log # <<>>) =>
        /\ RetNote = attempt_log[BestAttempt].cand
        /\ RetResult.score = attempt_log[BestAttempt].score
        /\ RetResult.of = RetNote

\* three failed attempts, the first and the third tie for the best total
C6_Witness ==
    /\ impl = "gwv"
    /\ lpc = "returned"
    /\ Len(attempt_log) = 3
    /\ NoAttemptPassed
    /\ attempt_log[1].score = attempt_log[3].score
    /\ attempt_log[2].score < attempt_log[1].score
    /\ RetNote = attempt_log[1].cand

\* C7: a generation call that fails on an attempt before the last does not
\* end the run, and a run that ends after a failure still returns the best
\* candidate recorded so far.
C7_GenerationFailureRetried ==
    /\ \A k \in gen_failed :
           k < max_attempts => lpc \notin {"raised", "returned_failure"}
    /\ (lpc \in {"raised", "returned_failure"} /\ best_note # NoCand) =>
           (ret # None /\ RetNote = best_note)

\* C27: in generate_with_verification attempt 1 uses the initial prompt, and
\* every attempt k >= 2 uses the initial prompt followed by one feedback
\* block, the one built from the result of attempt k-1; when the function
\* has returned, no feedback was built after the last attempt
C27_PromptHasFeedbackOfPreviousAttempt ==
    impl = "gwv" =>
        /\ \A k \in 1..Len(attempt_log) :
              /\ attempt_log[k].attempt = k
              /\ k = 1 => attempt_log[k].prompt = InitialPrompt
              /\ k >= 2 =>
                    attempt_log[k].prompt.feedback =
                        <<[score |-> attempt_log[k - 1].score, of |-> k - 1]>>
        /\ (lpc = "returned" /\ attempt_log # <<>>) =>
              current_prompt = attempt_log[Len(attempt_log)].prompt

C27_Witness ==
    /\ impl = "gwv" /\ lpc = "returned"
    /\ Len(attempt_log) = 3
    /\ attempt_log[1].score # attempt_log[2].score
    /\ attempt_log[3].prompt.feedback =
           <<[score |-> attempt_log[2].score, of |-> 2]>>
    /\ current_prompt = attempt_log[3].prompt

\* orchestrator.py 96-102, 115-122, 191-199: the total_tokens of the result;
\* a failure result carries the default of GenerationResult
ReportedTokens ==
    IF lpc = "returned" THEN total_tokens ELSE ZeroTokens

\* C30: at the end of Orchestrator.generate_note the reported total_tokens
\* equals the sum of the usage of every collaborator call of the run: the
\* analysis, the initial write, every critique and every revision
C30_TotalTokensIsSumOfCalls ==
    (impl = "orch" /\ lpc \in {"returned", "returned_failure"}) =>
        ReportedTokens = api_usage

----------------------------------------------------------------------------
(* Claims about phase 2 and phase 3, checked under SpecPhase *)

EventParts == {events[k].part : k \in 1..Len(events)}

\* the synthesis step ran for the chunk: a generation call, or the prompt
Synthesized(e) == e.step \in {"generate", "prompt"}

ExistingNotesUnchanged ==
    \A p \in 1..MaxParts :
        notes_at_start[p].kind # "absent" => notes[p] = notes_at_start[p]

RerunAfterCompleteIsIdle ==
    (~force /\ after_complete) => (run_calls = 0 /\ notes = notes_at_start)

ForceRegeneratesAll ==
    force => /\ \A k \in 1..Len(events) : Synthesized(events[k])
             /\ ppc = "p2_done" => EventParts = 1..Len(p2_chunks)

C9_FailureDoesNotBlockOthers ==
    \A p \in failed_parts :
        /\ Warning("chunk_failed", p) \in warnings
        /\ ppc \in {"p2_done", "p2_crashed"} =>
              \A j \in (p + 1)..Len(p2_chunks) : j \in EventParts

\* C10: phase 3 writes final_notes.md only from a complete set of partial
\* notes, one written for every chunk of the chunk set of the last phase-2
\* run; with notes for only some of the chunks it stops with an error.
C10_FinalOnlyFromCompleteSet ==
    ppc \in {"p3_copy", "p3_done"} =>
        \A p \in 1..Len(p2_chunks) :
            /\ \E k \in 1..Len(final_notes.files) : final_notes.files[k] = p
            /\ notes[p].kind \in {"generated", "prompt"}
            /\ notes[p].of = p2_chunks[p].text

NoChunkFile == \A p \in 1..MaxParts : ~chunk_files[p].exists

NoPartialNote == \A p \in 1..MaxParts : ~PartExists(p)

\* C11: phase 2 run without transcript.txt stops with an error that names
\* transcript.txt and phase 1, having made no generation call and written no
\* chunk file or partial note; phase 3 run with no notes_partN.md stops with
\* an error that names the part files and phase 2, having made no merge call
\* and written no final document.
C11_MissingPrerequisiteAborts ==
    /\ (phase = 2 /\ ~transcript.exists) =>
          /\ ppc = "exit_error"
          /\ exit_msg = ExitMsg("transcript.txt", 1)
          /\ run_calls = 0 /\ NoChunkFile /\ NoPartialNote
    /\ (phase = 3 /\ NoPartialNote) =>
          /\ ppc = "exit_error"
          /\ exit_msg = ExitMsg("notes_partN.md", 2)
          /\ run_calls = 0
          /\ final_notes = NoFinal /\ output_copy = NoFinal

\* phase 3 run after a phase 2 that was stopped before it wrote any note
C11_Witness ==
    /\ phase = 3 /\ ppc = "exit_error" /\ transcript.exists
    /\ ~NoChunkFile /\ NoPartialNote

\* C20: when a phase-2 run has finished, the chunk files and the part notes
\* in the work directory are exactly those of the run's chunk set: one chunk
\* file and one note per chunk and no others, and note p was made from the
\* run's chunk p
C20_ArtifactsOfCurrentChunkSet ==
    ppc = "p2_done" =>
        /\ \A p \in 1..MaxParts :
              /\ chunk_files[p].exists <=> p <= Len(p2_chunks)
              /\ PartExists(p) <=> p <= Len(p2_chunks)
        /\ \A p \in 1..Len(p2_chunks) :
              /\ chunk_files[p] = File(p2_chunks[p].text)
              /\ notes[p].kind \in {"generated", "prompt"}
              /\ notes[p].of = p2_chunks[p].text

\* phase 3 has read its parts: they are the part notes on disk, and a merged
\* document holds these parts and nothing else
MergeInputIsPartNotes ==
    ppc \in {"p3_merge", "p3_write", "p3_copy", "p3_done"} =>
        /\ Len(parts) = Len(part_files)
        /\ \A k \in 1..Len(part_files) :
              PartExists(part_files[k]) /\ parts[k] = notes[part_files[k]]
        /\ final_content # NoFinal =>
              /\ final_content.files = part_files
              /\ final_content.contents = parts
        /\ ppc = "p3_done" =>
              final_notes = final_content /\ output_copy = final_content

\* C24: the input of the merge of phase 3 is built from the part notes only,
\* and every step of phase 3 leaves the transcript, the chunk files and the
\* part notes as they are: it writes the final document and its copy only
C24_Phase3TouchesOnlyFinal ==
    /\ []MergeInputIsPartNotes
    /\ [][phase' = 3 => UNCHANGED <<transcript, chunk_files, notes>>]_vars

C24_Witness ==
    /\ ppc = "p3_done" /\ phase = 3
    /\ transcript.exists /\ chunk_files[1].exists
    /\ Len(parts) >= 2
    /\ parts[1].of # transcript.text
    /\ final_notes.contents = parts /\ output_copy = final_notes

\* C25: when a phase-2 run with the API key and the client library has
\* finished, no note of its chunks is a stored prompt: every one holds the
\* output of a generation call
C25_NoStoredPromptAfterRunWithKey ==
    (ppc = "p2_done" /\ env = "key_sdk") =>
        \A p \in 1..Len(p2_chunks) : notes[p].kind # "prompt"

\* C26: when a phase-2 run without --force has finished, whatever was
\* interrupted before it, no note of its chunks is an empty or half-written
\* file: every one holds the complete synthesis output of its chunk
C26_NoEmptyNoteAfterResume ==
    (ppc = "p2_done" /\ ~force) =>
        \A p \in 1..Len(p2_chunks) : notes[p].kind \in {"generated", "prompt"}

----------------------------------------------------------------------------
(* Claims about the merge of phase 3, checked under SpecMerge *)

\* the run has chosen its merge function
MergeChosen == m_trace # <<>>

AiMergeAsked == api_key(m_env) /\ ~m_no_merge_ai

TraceHas(fn) == \E k \in 1..Len(m_trace) : m_trace[k] = fn

ByThreshold ==
    IF TotalChars(m_parts) > 100000 THEN "merge_hierarchical" ELSE "merge_thematic"

\* C12 (as amended): when the API key is set and --no-merge-ai is not given,
\* a phase-3 run that reaches the merge calls exactly one of merge_thematic and
\* merge_hierarchical, merge_hierarchical exactly when the notes hold more
\* than 100000 characters in total, and every API call of the run is made by
\* that function; when the anthropic package is missing the function chosen
\* makes no call and returns what merge_simple returns.  In every other run
\* neither is called: merge_simple makes the final document.
C12_OneAiPathByThreshold ==
    MergeChosen =>
       IF AiMergeAsked
       THEN /\ m_trace[1] = ByThreshold
            /\ ~TraceHas(IF ByThreshold = "merge_thematic"
                         THEN "merge_hierarchical" ELSE "merge_thematic")
            /\ \A k \in 1..Len(m_calls) : m_calls[k].fn = ByThreshold
            /\ (m_env = "key_no_sdk") =>
                  m_trace = <<ByThreshold, "merge_simple">> /\ m_calls = <<>>
            /\ (m_env = "key_sdk") => m_trace = <<ByThreshold>>
       ELSE m_trace = <<"merge_simple">> /\ m_calls = <<>>

\* a thematic merge written for notes of exactly 100000 characters
C12_Witness ==
    /\ m_pc = "done" /\ m_trace = <<"merge_thematic">>
    /\ TotalChars(m_parts) = 100000 /\ Len(m_calls) = 1

\* C12 (as stated): in every run of phase 3 that merges, exactly one of the
\* thematic and hierarchical paths executes, never both and never neither,
\* chosen by whether the notes hold more than 100000 characters.
C12_AlwaysOneAiPath ==
    MergeChosen =>
       /\ TraceHas("merge_thematic") # TraceHas("merge_hierarchical")
       /\ TraceHas(ByThreshold)

\* the parts of the j-th group (j from 1) of a list of n parts
GroupOf(j) == SubSeq(m_parts, 3 * (j - 1) + 1, Min(3 * j, Len(m_parts)))

CeilThird(n) == (n + 2) \div 3

\* C13: merge_hierarchical over n >= 1 parts makes ceil(n/3) group calls, the
\* j-th over the parts at positions 3(j-1)+1 .. min(3j, n) of the list it was
\* given, in that order, and then one final call over the summaries of all
\* the groups in group order; a merge that returns has made all of them.
C13_HierarchicalGroupsOfThree ==
    (m_trace = <<"merge_hierarchical">>) =>
       LET n == Len(m_parts)
           ng == CeilThird(n)
       IN  /\ n >= 1
           /\ Len(m_calls) <= ng + 1
           /\ \A k \in 1..Len(m_calls) :
                 IF k <= ng
                 THEN m_calls[k] = Call("merge_hierarchical", "group", GroupOf(k))
                 ELSE m_calls[k] =
                        Call("merge_hierarchical", "final",
                             [j \in 1..ng |-> Summary("group", GroupOf(j))])
           /\ m_pc \in {"write", "done"} =>
                 /\ Len(m_calls) = ng + 1
                 /\ m_final.pieces = <<Summary("final", m_calls[ng + 1].of)>>

\* seven parts merged hierarchically: groups of 3, 3, 1 and the final call
C13_Witness ==
    /\ m_pc = "done" /\ m_trace = <<"merge_hierarchical">>
    /\ Len(m_parts) = 7 /\ Len(m_calls) = 4
    /\ Len(m_calls[3].of) = 1

SimpleEntries ==
    {k \in 1..Len(m_log) : m_log[k].final.strategy = "simple"}

C19_PartsInAscendingOrder ==
    \A k \in 1..Len(m_parts) : m_parts[k].part = k

\* C23: no generation call of the hierarchical merge, for a group or the
\* final one, holds more documents than a group, however many part notes
\* there are
C23_HierarchicalCallInputBounded ==
    \A k \in 1..Len(m_calls) :
        m_calls[k].fn = "merge_hierarchical" => Len(m_calls[k].of) <= GroupSize

----------------------------------------------------------------------------
(* Claims about the citation score, checked under SpecCite *)

\* C15: putting one more well-formed citation marker anywhere into a note
\* never lowers its citation score, in verify_citations (with the penalties
\* for no bracket in the first 30% and in the last 30% of the note) and in
\* the critic's _verify_citations; with five or more markers the score by
\* count is 100.
C15_CitationScoreMonotone ==
    /\ c_inserted =>
          /\ verify_citations(c_note, c_st) >= verify_citations(c_before, c_st)
          /\ critic_verify_citations(c_note, c_st)
                >= critic_verify_citations(c_before, c_st)
    /\ citation_count(c_note, c_st) >= 5 =>
          /\ critic_verify_citations(c_note, c_st) = 100
          /\ verify_citations(c_note, c_st) >= 80

\* a fifth marker is put in front of a note that opened with plain text
C15_Witness ==
    /\ c_inserted
    /\ citation_count(c_before, c_st) = 4 /\ citation_count(c_note, c_st) = 5
    /\ verify_citations(c_before, c_st) = 60
    /\ verify_citations(c_note, c_st) = 100

\* the matches of the source type's pattern from position p on, as findall
\* takes them: the position of the opening bracket and the length of each
RECURSIVE MatchesFrom(_, _, _)
MatchesFrom(s, p, st) ==
    IF p > Len(s) THEN <<>>
    ELSE LET n == MatchAt(s, p, st)
         IN  IF n > 0 THEN <<[start |-> p, len |-> n]>> \o MatchesFrom(s, p + n, st)
             ELSE MatchesFrom(s, p + 1, st)

\* the score by the markers themselves: the base score of their number, less
\* 10 when the first marker begins after 30% of the note and less 10 when
\* the last marker ends before 70% of it (positions counted from 0)
ScoreByMarkers(nt, st) ==
    LET ms == MatchesFrom(nt, 1, st)
        n == Len(ms)
        first == ms[1].start - 1
        last == ms[n].start + ms[n].len - 2
        score == BaseScore(n)
        s1 == IF n > 0 /\ 10 * first > 3 * Len(nt)
              THEN Max(0, score - 10) ELSE score
        s2 == IF n > 0 /\ 10 * last < 7 * Len(nt)
              THEN Max(0, s1 - 10) ELSE s1
    IN  s2

\* C22: the citation sub-score is the base score of the marker count, less 10
\* exactly when the first citation marker begins after the 30% mark and less
\* 10 exactly when the last citation marker ends before the 70% mark, floored
\* at 0, the first and the last being matches of the source type's pattern
C22_PenaltiesByMarkerPositions ==
    verify_citations(c_note, c_st) = ScoreByMarkers(c_note, c_st)

----------------------------------------------------------------------------
(* Claims about verify_note and CriticAgent.run, checked under SpecScore *)

\* the rules the call looked the template up in
RulesOf ==
    IF s_path = "critic" THEN CriticRules(s_template)
    ELSE VerifierRules(s_template)

\* the scored note has no citation marker and lacks a required marker
ZeroCitesMissingMarker ==
    /\ s_pc = "done"
    /\ citation_count(s_note.text, s_st) = 0
    /\ MissingMarkers(RulesOf.markers, s_note.text) >= 1

\* C16: a note with no citation marker and at least one required template
\* marker missing gets citation score 0 and structure score at most 80, and
\* with these two its total is below 80 and it does not pass, whatever the
\* faithfulness score in 0..100, under the weights 25/25/50 and 20/20/60
C16_NoCitesMissingMarkerFails ==
    ZeroCitesMissingMarker =>
        /\ s_result.citation = 0
        /\ s_result.structure <= 80
        /\ s_result.faithfulness \in 0..100 =>
              s_result.total < 80 /\ ~s_result.passed
        /\ \A f \in 0..100 :
              /\ VerifyTotal(s_result.citation, s_result.structure, f) < 80
              /\ CriticTotal(s_result.citation, s_result.structure, f) < 80
              /\ ~Passed(VerifyTotal(s_result.citation, s_result.structure, f),
                         80)
              /\ ~Passed(CriticTotal(s_result.citation, s_result.structure, f),
                         80)

C16_Witness ==
    /\ ZeroCitesMissingMarker
    /\ s_path = "critic"
    /\ s_result.structure = 80
    /\ s_ai = [kind |-> "score", score |-> 100]
    /\ s_result.total = 76 /\ ~s_result.passed

\* the judgment was not obtained: no credential, no client library, the call
\* raised, or the response could not be parsed
JudgmentFailed ==
    s_pc = "done" /\ s_ai.kind \in {"no_key", "no_sdk", "raises", "unparsable"}

\* C17: when the judgment is not obtained, the faithfulness sub-score used in
\* the total is 80, in verify_note and in CriticAgent.run
C17_FailedJudgmentScoresEighty ==
    JudgmentFailed => s_result.faithfulness = DefaultFaithfulness

\* C29: on the same note, template and source type, verify_note and
\* CriticAgent.run compute the same citation sub-score, the same structure
\* sub-score and the same faithfulness score when the judgment is not
\* obtained; only the weights of the total differ
C29_SameSubScoresOnBothPaths ==
    s_pc = "done" =>
        /\ verify_citations(s_note.text, s_st)
              = critic_verify_citations(s_note.text, s_st)
        /\ verify_structure(s_note.text, s_template)
              = critic_verify_structure(s_note.text, s_template)
        /\ JudgmentFailed =>
              verify_faithfulness(s_ai) = critic_verify_with_ai(s_ai)

====
